---- MODULE Spec2Model ----
(***************************************************************************)
(* State-machine model of the evo_tts synthesis backends (MatchaBackend    *)
(* and its three language variants, KokoroBackend), of the inference       *)
(* mutex that serialises their neural-session runs, and of the TtsEngine   *)
(* facade (Call / StreamingCall).                                           *)
(*                                                                         *)
(* Conventions                                                             *)
(*   - a unique_ptr member (env_, acoustic_model_, ...) is a BOOLEAN:      *)
(*     TRUE when it owns an object, FALSE when it is null;                 *)
(*   - float speeds are integers in tenths (10 stands for 1.0f);           *)
(*   - an audio buffer is represented by its number of samples;            *)
(*   - what the file system, the ONNX runtime and the external phonemizer  *)
(*     do is an input of the action, drawn with \E from the outcomes the   *)
(*     code distinguishes.                                                 *)
(***************************************************************************)
EXTENDS Integers, Sequences, FiniteSets, TLC

\* ------------------------------------------------------------------------
\* Bounds of the model
\* ------------------------------------------------------------------------
MaxTokens == 1
MaxSamples == 1
NumThreads == 2
MaxFrames == 2

\* ------------------------------------------------------------------------
\* Program constants
\* ------------------------------------------------------------------------
MaxSpeed == 100
DefaultSpeed == 10
DefaultVolume == 50
MatchaNativeRate == 22050
MatchaZhEnRate == 16000
SAMPLE_RATE == 24000
PAD_TOKEN_ID == 0
MAX_TOKEN_LENGTH == 512
DefaultResultRate == 22050
DefaultLengthScale == 10
STYLE_DIM == 256

MatchaKinds == {"MATCHA_ZH", "MATCHA_EN", "MATCHA_ZH_EN"}
BackendKinds == MatchaKinds \cup {"KOKORO"}

\* ------------------------------------------------------------------------
\* Inputs
\* ------------------------------------------------------------------------
Texts == {"", "ni hao"}
TokenSeqs == UNION {[1..n -> {1}] : n \in 0..MaxTokens}
ConfigSpeeds == {20}
SpeedArgs == {-5, 0, 5, 100, 105}
SpeakerArgs == {-1, 0, 1}
Configs == [speech_rate : ConfigSpeeds, speaker_id : {0},
            output_sample_rate : {0, 16000}, enable_warmup : BOOLEAN]
DefaultConfig == [speech_rate |-> DefaultSpeed, speaker_id |-> 0,
                  output_sample_rate |-> 0, enable_warmup |-> TRUE]
TokenFile == {"sil", "a"}

\* What the environment does to one initialize call.  For MatchaBackend:
\*   download_fail    ensureModelsExist returns false
\*   env_throw ... tokens_throw   the named step throws
\*   lexicon_missing  (MatchaZhBackend) lexicon.txt is not in the model
\*                    directory
\*   lexicon_throw    (MatchaZhBackend) lexicon.txt exists and loadLexicon
\*                    throws
\*   lang_fail        any other failure of initializeLanguageSpecific
\*   ok               every step succeeds
MatchaInitOutcomes == {"download_fail", "env_throw", "acoustic_throw",
                       "vocoder_throw", "tokens_throw", "lexicon_missing",
                       "lexicon_throw", "lang_fail", "ok"}
LexiconOutcomes == {"lexicon_missing", "lexicon_throw"}
KokoroInitOutcomes == {"pinyin_throw", "download_fail", "voice_missing",
                       "voice_load_fail", "env_throw", "session_throw",
                       "warmup_throw", "ok"}

VARIABLES
    type_,              \* MatchaBackend::type_ / the concrete backend class
    initialized_,       \* initialized_
    env_,               \* env_ owns an Ort::Env
    acoustic_model_,    \* MatchaBackend::acoustic_model_ owns a session
    vocoder_model_,     \* MatchaBackend::vocoder_model_ owns a session
    session_,           \* KokoroBackend::session_ owns a session
    token_to_id_,       \* MatchaBackend::token_to_id_ (set of its keys)
    config_,            \* config_
    sample_rate_,       \* MatchaBackend::sample_rate_
    num_speakers_,      \* MatchaBackend::num_speakers_
    current_speed_,     \* current_speed_
    current_speaker_,   \* MatchaBackend::current_speaker_
    callback_,          \* ITtsBackend::callback_ is non-null
    lastOp,             \* the backend operation called last
    lastArg,            \* its argument (text, speed or speaker id); for
                        \* initialize, what the environment did to the call
    lastStage,          \* the statement at which that synthesize returned
    tick,               \* flips at every completed backend call
    lastErr,            \* ErrorInfo::code returned by that call
    result,             \* the SynthesisResult the call filled in
    chunks,             \* onAudioChunk notifications made by that call
    lastInfo,           \* ErrorInfo::message and ::detail a synthesize returned
    thrown,             \* what() of the exception raised inside that call
    inference,          \* the stages that call ran, in order, and the
                        \* length_scale it gave to the acoustic model
    eng_constructed,    \* the TtsEngine constructor has run
    eng_backend,        \* TtsEngine::Impl::backend is non-null
    eng_initialized,    \* TtsEngine::Impl::initialized
    eng_config,         \* TtsEngine::Impl::config
    engOp,              \* the engine method called last
    callResult,         \* the TtsEngineResult its Call produced
    cbLog,              \* the TtsResultCallback methods it invoked, in order
    eventArg,           \* the result handed to OnEvent
    errorArg,           \* the message handed to OnError
    engArg,             \* the value handed to the engine setter called last
    callPtr,            \* the shared_ptr Call returned is non-null
    toFile,             \* what CallToFile returned and left at file_path
    pc,                 \* where each calling thread is inside synthesize
    inference_mutex_,   \* the thread that owns inference_mutex_, 0 when free
    tres,               \* the ErrorInfo::code each finished call returns
    sd,                 \* where the thread that called shutdown is inside it
    fn,                 \* the factory, token or number function that is called
    fnArg,              \* its argument
    fnRet,              \* the value it returned
    fnDone              \* the call has returned

backendVars == <<type_, initialized_, env_, acoustic_model_, vocoder_model_,
                 session_, token_to_id_, config_, sample_rate_, num_speakers_,
                 current_speed_, current_speaker_, callback_>>
obsVars == <<lastOp, lastArg, lastStage, tick, lastErr, result, chunks, lastInfo,
            thrown, inference>>
engVars == <<eng_constructed, eng_backend, eng_initialized, eng_config, engOp,
             callResult, cbLog, eventArg, errorArg, engArg, callPtr,
             toFile>>
thrVars == <<pc, inference_mutex_, tres, sd>>
fnVars == <<fn, fnArg, fnRet, fnDone>>
vars == <<backendVars, obsVars, engVars, thrVars, fnVars>>

Threads == 1..NumThreads

\* The texts of an ErrorInfo are sequences of the strings the code
\* concatenates; ErrorInfo::ok() has the empty message and the empty detail.
NoInfo == [message |-> <<>>, detail |-> ""]

\* ErrorInfo::error(code, msg): the detail parameter is defaulted to "".
ErrorTexts(msg) == [message |-> msg, detail |-> ""]

\* A float that is the quotient of two integers: <<numerator, denominator>>.
\* No stage has run and no length_scale was handed to a session.
NoInference == [stages |-> <<>>, length_scale |-> <<0, 1>>]

\* A default-constructed SynthesisResult (tts_types.hpp).
FreshResult == [success |-> FALSE, samples |-> 0, sample_rate |-> 0]

\* AudioChunk::fromFloat(data, rate) stored into a result with success = true.
AudioResult(n, rate) == [success |-> TRUE, samples |-> n, sample_rate |-> rate]

IsMatcha == type_ \in MatchaKinds

\* createInternalConfig: the native rate of each Matcha variant.
NativeRate(kind) == IF kind = "MATCHA_ZH_EN" THEN MatchaZhEnRate ELSE MatchaNativeRate

\* ------------------------------------------------------------------------
\* Construction
\* ------------------------------------------------------------------------
BackendInit ==
    /\ initialized_ = FALSE
    /\ env_ = FALSE
    /\ acoustic_model_ = FALSE
    /\ vocoder_model_ = FALSE
    /\ session_ = FALSE
    /\ token_to_id_ = {}
    /\ config_ = DefaultConfig
    /\ sample_rate_ = MatchaNativeRate
    /\ num_speakers_ = 1
    /\ current_speed_ = DefaultSpeed
    /\ current_speaker_ = 0
    /\ callback_ = FALSE
    /\ lastOp = "construct"
    /\ lastArg = "-"
    /\ lastStage = "-"
    /\ tick = 0
    /\ lastErr = "OK"
    /\ result = FreshResult
    /\ chunks = 0
    /\ lastInfo = NoInfo
    /\ thrown = ""
    /\ inference = NoInference

\* A default-constructed TtsEngineResult::Impl.
NoCallResult ==
    [success |-> FALSE, samples |-> 0, sample_rate |-> DefaultResultRate, message |-> <<>>]

\* No file at file_path; the fields of a file are those of its WAV header.
NoFile == [exists |-> FALSE, audio_format |-> 0, channels |-> 0,
           bits_per_sample |-> 0, sample_rate |-> 0, samples |-> 0]

\* CallToFile has not been called.
NoToFile == [ret |-> FALSE, io |-> "-", file |-> NoFile]

\* The TtsEngine::Impl members before TtsEngine's constructor has run.
NoEngine ==
    /\ eng_constructed = FALSE
    /\ eng_backend = FALSE
    /\ eng_initialized = FALSE
    /\ eng_config = [backend |-> "MATCHA_ZH", speech_rate |-> DefaultSpeed,
                     speaker_id |-> 0, volume |-> DefaultVolume,
                     enable_warmup |-> TRUE]
    /\ engOp = "-"
    /\ callResult = NoCallResult
    /\ cbLog = <<>>
    /\ eventArg = NoCallResult
    /\ errorArg = <<>>
    /\ engArg = 0
    /\ callPtr = FALSE
    /\ toFile = NoToFile

\* No thread is inside synthesize and the mutex is free.
NoThreads ==
    /\ pc = [t \in Threads |-> "idle"]
    /\ inference_mutex_ = 0
    /\ tres = [t \in Threads |-> "-"]
    /\ sd = "idle"

\* No text or token utility has been applied.
NoFn ==
    /\ fn = "-"
    /\ fnArg = "-"
    /\ fnRet = "-"
    /\ fnDone = FALSE

Returns(op, arg, code) ==
    /\ lastOp' = op
    /\ lastArg' = arg
    /\ tick' = 1 - tick
    /\ lastErr' = code

\* A call other than synthesize fills in no SynthesisResult.
NoResult ==
    /\ result' = FreshResult
    /\ chunks' = 0
    /\ lastStage' = "-"
    /\ lastInfo' = NoInfo
    /\ thrown' = ""
    /\ inference' = NoInference

\* ------------------------------------------------------------------------
\* initialize
\* ------------------------------------------------------------------------

\* Mutant: initialize without its guard.
InitializeRejects_never == FALSE

\* The guard both initialize methods start with: if (initialized_) return
\* ALREADY_STARTED.
InitializeRejects == initialized_

\* How far MatchaBackend::initialize got before it left: each set names the
\* outcomes in which the member was assigned.
MatchaTokensRead == LexiconOutcomes \cup {"lang_fail", "ok"}
MatchaVocoderMade == MatchaTokensRead \cup {"tokens_throw"}
MatchaAcousticMade == MatchaVocoderMade \cup {"vocoder_throw"}
MatchaEnvMade == MatchaAcousticMade \cup {"acoustic_throw"}

\* The outcomes in which MatchaBackend::initialize reaches initialized_ =
\* true: MatchaZhBackend::initializeLanguageSpecific prints a warning and
\* returns ok() when the lexicon file does not exist.
MatchaInitSucceeds == {"lexicon_missing", "ok"}

\* The error code of each way MatchaBackend::initialize can end: the
\* downloader failure and every exception give MODEL_NOT_FOUND, and the error
\* of initializeLanguageSpecific (INTERNAL_ERROR in all three variants) is
\* returned as it is.
MatchaInitCode(outcome) ==
    CASE outcome \in MatchaInitSucceeds -> "OK"
      [] outcome \in {"lexicon_throw", "lang_fail"} -> "INTERNAL_ERROR"
      [] OTHER -> "MODEL_NOT_FOUND"

MatchaInitializeBody(kind, cfg, outcome) ==
    /\ outcome \in LexiconOutcomes => kind = "MATCHA_ZH"
    /\ IF InitializeRejects
       THEN /\ Returns("initialize", "-", "ALREADY_STARTED")
            /\ NoResult
            /\ UNCHANGED <<initialized_, env_, acoustic_model_, vocoder_model_,
                           session_, token_to_id_, config_, sample_rate_,
                           num_speakers_, current_speed_, current_speaker_, callback_>>
       ELSE /\ config_' = cfg
            /\ sample_rate_' = NativeRate(kind)
            /\ env_' = (env_ \/ outcome \in MatchaEnvMade)
            /\ acoustic_model_' = (acoustic_model_ \/ outcome \in MatchaAcousticMade)
            /\ vocoder_model_' = (vocoder_model_ \/ outcome \in MatchaVocoderMade)
            /\ token_to_id_' = IF outcome \in MatchaTokensRead THEN TokenFile
                                                                ELSE token_to_id_
            /\ num_speakers_' = IF outcome \in MatchaTokensRead THEN 1 ELSE num_speakers_
            /\ initialized_' = (outcome \in MatchaInitSucceeds)
            /\ current_speed_' = IF outcome \in MatchaInitSucceeds THEN cfg.speech_rate
                                                                  ELSE current_speed_
            /\ current_speaker_' = IF outcome \in MatchaInitSucceeds THEN cfg.speaker_id
                                                                    ELSE current_speaker_
            /\ Returns("initialize", outcome, MatchaInitCode(outcome))
            /\ NoResult
            /\ UNCHANGED <<session_, callback_>>

MatchaInitialize(cfg, outcome) ==
    /\ IsMatcha
    /\ MatchaInitializeBody(type_, cfg, outcome)
    /\ UNCHANGED type_

KokoroEnvMade == {"session_throw", "warmup_throw", "ok"}
KokoroSessionMade == {"warmup_throw", "ok"}

KokoroInitCode(outcome) ==
    CASE outcome = "ok" -> "OK"
      [] outcome = "pinyin_throw" -> "INVALID_CONFIG"
      [] OTHER -> "MODEL_NOT_FOUND"

KokoroInitializeBody(cfg, outcome) ==
    /\ outcome = "warmup_throw" => cfg.enable_warmup
    /\ IF InitializeRejects
       THEN /\ Returns("initialize", "-", "ALREADY_STARTED")
            /\ NoResult
            /\ UNCHANGED <<initialized_, env_, acoustic_model_, vocoder_model_,
                           session_, token_to_id_, config_, sample_rate_,
                           num_speakers_, current_speed_, current_speaker_, callback_>>
       ELSE /\ config_' = cfg
            /\ env_' = (env_ \/ outcome \in KokoroEnvMade)
            /\ session_' = (session_ \/ outcome \in KokoroSessionMade)
            /\ initialized_' = (outcome = "ok")
            /\ current_speed_' = IF outcome = "ok" THEN cfg.speech_rate ELSE current_speed_
            /\ Returns("initialize", outcome, KokoroInitCode(outcome))
            /\ UNCHANGED <<acoustic_model_, vocoder_model_, token_to_id_,
                           sample_rate_, num_speakers_, current_speaker_, callback_>>
            /\ NoResult

KokoroInitialize(cfg, outcome) ==
    /\ type_ = "KOKORO"
    /\ KokoroInitializeBody(cfg, outcome)
    /\ UNCHANGED type_

Initialize ==
    \/ \E cfg \in Configs, outcome \in MatchaInitOutcomes : MatchaInitialize(cfg, outcome)
    \/ \E cfg \in Configs, outcome \in KokoroInitOutcomes : KokoroInitialize(cfg, outcome)

\* ------------------------------------------------------------------------
\* shutdown
\* ------------------------------------------------------------------------
Shutdown ==
    /\ IF initialized_
       THEN /\ acoustic_model_' = FALSE
            /\ vocoder_model_' = FALSE
            /\ session_' = FALSE
            /\ env_' = FALSE
            /\ token_to_id_' = IF IsMatcha THEN {} ELSE token_to_id_
            /\ initialized_' = FALSE
       ELSE UNCHANGED <<acoustic_model_, vocoder_model_, session_, env_,
                        token_to_id_, initialized_>>
    /\ Returns("shutdown", "-", "OK")
    /\ UNCHANGED <<type_, config_, sample_rate_, num_speakers_, current_speed_,
                   current_speaker_, callback_>>
    /\ NoResult

\* ------------------------------------------------------------------------
\* synthesize
\* ------------------------------------------------------------------------

\* what() of the exception a faulty stage throws.
ExceptionMessages == {"bad allocation", "invalid input shape"}

\* What the collaborators of one synthesize call do: the token ids the
\* phonemizer produces, the stage that throws (if any), the number of mel
\* frames the acoustic model returns and the number of samples the vocoder /
\* the Kokoro model returns.
Runs == {r \in [tokens : TokenSeqs,
                fault : {"none", "tokenize", "acoustic", "vocoder"}, frames : 0..1,
                samples : 0..MaxSamples, what : ExceptionMessages \cup {""}] :
            (r.fault = "none") <=> (r.what = "")}

\* KokoroPhonemizer::textToTokenIds, steps 3-5: no IPA gives no tokens,
\* otherwise the ids are wrapped in PAD_TOKEN_ID.
\* Mutant: the truncation without padded.back() = PAD_TOKEN_ID.
Truncated_keepLast(padded) ==
    IF Len(padded) > MAX_TOKEN_LENGTH THEN SubSeq(padded, 1, MAX_TOKEN_LENGTH)
                                      ELSE padded

\* Step 5: padded.resize(MAX_TOKEN_LENGTH); padded.back() = PAD_TOKEN_ID.
Truncated(padded) ==
    IF Len(padded) > MAX_TOKEN_LENGTH
    THEN SubSeq(padded, 1, MAX_TOKEN_LENGTH - 1) \o <<PAD_TOKEN_ID>>
    ELSE padded

\* KokoroPhonemizer::textToTokenIds from the IPA string on: no_ipa is
\* combined_ipa.empty(), ids is what ipaToTokenIds returns (it skips the
\* symbols that are not in the vocabulary).
KokoroTokenIds(no_ipa, ids) ==
    IF no_ipa THEN <<>>
              ELSE Truncated(<<PAD_TOKEN_ID>> \o ids \o <<PAD_TOKEN_ID>>)

\* The same for a text all of whose IPA symbols are in the vocabulary.
KokoroTokens(ids) == KokoroTokenIds(ids = <<>>, ids)

\* The token ids textToTokenIds returns for the backend kind.
TokensOf(kind, ids) == IF kind = "KOKORO" THEN KokoroTokens(ids) ELSE ids

\* audio::resampleAudio: the length of the resampled buffer.
ResampledLen(n, src, dst) ==
    IF n = 0 \/ src = dst \/ dst <= 0 THEN n ELSE (n * dst) \div src

\* An error return, ErrorInfo::error(code, msg): the caller's result is left
\* as it was constructed.
Fail(code, msg, stage) ==
    [code |-> code, info |-> ErrorTexts(msg), result |-> FreshResult,
     chunks |-> 0, stage |-> stage, thrown |-> ""]

\* Mutant: the catch clause passes e.what() as the detail of the error.
Caught_asDetail(prefix, what) ==
    [code |-> "SYNTHESIS_FAILED", info |-> [message |-> <<prefix>>, detail |-> what],
     result |-> FreshResult, chunks |-> 0, stage |-> "exception", thrown |-> what]

\* catch (const std::exception& e):
\* return ErrorInfo::error(SYNTHESIS_FAILED, std::string(prefix) + e.what()).
Caught(prefix, what) ==
    [Fail("SYNTHESIS_FAILED", <<prefix, what>>, "exception") EXCEPT !.thrown = what]

\* Mutant: an empty token sequence, mel or waveform reported as a failure.
EmptyAudio_asError(rate, stage) ==
    [code |-> "SYNTHESIS_FAILED", info |-> NoInfo, result |-> FreshResult,
     chunks |-> 0, stage |-> stage, thrown |-> ""]

\* The early returns on an empty token sequence, mel or waveform:
\* result.audio = AudioChunk::fromFloat({}, rate, true); success = true; OK.
EmptyAudio(rate, stage) ==
    [code |-> "OK", info |-> NoInfo, result |-> AudioResult(0, rate),
     chunks |-> 0, stage |-> stage, thrown |-> ""]

\* The tail of synthesize: fill the result, notify the callback if one is set.
Filled(n, rate) ==
    [code |-> "OK", info |-> NoInfo, result |-> AudioResult(n, rate),
     chunks |-> IF callback_ THEN 1 ELSE 0, stage |-> "full", thrown |-> ""]

\* Mutant: synthesize tests the session pointers instead of the flag.
SynthesizeRejects_sessions == ~(acoustic_model_ \/ session_)

\* if (!initialized_) return NOT_INITIALIZED
SynthesizeRejects == ~initialized_

\* Mutant: synthesize without the empty-text check.
TextIsEmpty_never(text) == FALSE

\* if (text.empty()) return INVALID_TEXT
TextIsEmpty(text) == text = ""

\* MatchaBackend::synthesize, steps 4-5 and the result: the resampling
\* decision and the rate the chunk is labelled with.
MatchaNeedsResample ==
    config_.output_sample_rate > 0 /\ config_.output_sample_rate # sample_rate_

MatchaOutput(n) ==
    IF MatchaNeedsResample
    THEN Filled(ResampledLen(n, sample_rate_, config_.output_sample_rate),
                config_.output_sample_rate)
    ELSE Filled(n, sample_rate_)

MatchaSynthesize(text, run) ==
    IF SynthesizeRejects
    THEN Fail("NOT_INITIALIZED", <<"Backend not initialized">>, "not_initialized")
    ELSE IF TextIsEmpty(text) THEN Fail("INVALID_TEXT", <<"Empty text">>, "empty_text")
    ELSE IF run.fault = "tokenize" THEN Caught("Synthesis failed: ", run.what)
    ELSE IF TokensOf(type_, run.tokens) = <<>> THEN EmptyAudio(sample_rate_, "no_tokens")
    ELSE IF run.fault = "acoustic" THEN Caught("Synthesis failed: ", run.what)
    ELSE IF run.frames = 0 THEN EmptyAudio(sample_rate_, "no_mel")
    ELSE IF run.fault = "vocoder" THEN Caught("Synthesis failed: ", run.what)
    ELSE MatchaOutput(run.samples)

\* KokoroBackend::synthesize: one session run; the fault "vocoder" is the
\* post-processing stage here.
KokoroSynthesize(text, run) ==
    IF SynthesizeRejects
    THEN Fail("NOT_INITIALIZED", <<"Backend not initialized">>, "not_initialized")
    ELSE IF TextIsEmpty(text) THEN Fail("INVALID_TEXT", <<"Empty text">>, "empty_text")
    ELSE IF run.fault = "tokenize" THEN Caught("Kokoro synthesis failed: ", run.what)
    ELSE IF TokensOf(type_, run.tokens) = <<>> THEN EmptyAudio(SAMPLE_RATE, "no_tokens")
    ELSE IF run.fault = "acoustic" THEN Caught("Kokoro synthesis failed: ", run.what)
    ELSE IF run.samples = 0 THEN EmptyAudio(SAMPLE_RATE, "no_waveform")
    ELSE IF run.fault = "vocoder" THEN Caught("Kokoro synthesis failed: ", run.what)
    ELSE Filled(run.samples, SAMPLE_RATE)

BackendSynthesize(text, run) ==
    IF IsMatcha THEN MatchaSynthesize(text, run) ELSE KokoroSynthesize(text, run)

\* createInternalConfig: internal_config_.length_scale = 1.0f /
\* config_.speech_rate (speeds are in tenths, so 1.0f is 10).
ConfiguredLengthScale == <<10, config_.speech_rate>>

\* runAcousticModel(tokens, speaker_id, speed): length_scale_data =
\* {internal_config_.length_scale / speed}; synthesize passes current_speed_.
AcousticLengthScale(speed) ==
    <<ConfiguredLengthScale[1] * 10, ConfiguredLengthScale[2] * speed>>

\* The stages a MatchaBackend::synthesize call ran before it returned, and
\* the length_scale of its acoustic run. VocoderStages are the audio stages
\* of runVocoder, in the order of its statements: the vocoder session,
\* vocoder::istft, audio::processAudio. ResampleStage is step 5 of
\* synthesize, after runVocoder has returned.
MatchaInference(text, run) ==
    LET VocoderStages == <<"vocoder", "istft", "postprocess">>
        ResampleStage == IF MatchaNeedsResample THEN <<"resample">> ELSE <<>>
        stage == MatchaSynthesize(text, run).stage
        ran == CASE stage = "full" -> <<"acoustic">> \o VocoderStages \o ResampleStage
                 [] stage = "no_mel" -> <<"acoustic">>
                 [] stage = "exception" /\ run.fault = "acoustic" -> <<"acoustic">>
                 [] stage = "exception" /\ run.fault = "vocoder" -> <<"acoustic", "vocoder">>
                 [] OTHER -> <<>>
    IN  [stages |-> ran,
         length_scale |-> IF ran = <<>> THEN <<0, 1>>
                                        ELSE AcousticLengthScale(current_speed_)]

\* KokoroBackend::synthesize: runInference, then audio::processAudio; its
\* session has no length_scale input.
KokoroInference(text, run) ==
    LET stage == KokoroSynthesize(text, run).stage
        ran == CASE stage = "full" -> <<"inference", "postprocess">>
                 [] stage = "no_waveform" -> <<"inference">>
                 [] stage = "exception" /\ run.fault = "acoustic" -> <<"inference">>
                 [] stage = "exception" /\ run.fault = "vocoder" -> <<"inference", "postprocess">>
                 [] OTHER -> <<>>
    IN  [stages |-> ran, length_scale |-> <<0, 1>>]

BackendInference(text, run) ==
    IF IsMatcha THEN MatchaInference(text, run) ELSE KokoroInference(text, run)

\* A synthesize call on the backend with a fresh SynthesisResult.
Synthesize(text, run) ==
    /\ Returns("synthesize", text, BackendSynthesize(text, run).code)
    /\ result' = BackendSynthesize(text, run).result
    /\ chunks' = BackendSynthesize(text, run).chunks
    /\ lastStage' = BackendSynthesize(text, run).stage
    /\ lastInfo' = BackendSynthesize(text, run).info
    /\ thrown' = BackendSynthesize(text, run).thrown
    /\ inference' = BackendInference(text, run)
    /\ UNCHANGED backendVars

\* ------------------------------------------------------------------------
\* getSampleRate
\* ------------------------------------------------------------------------

\* MatchaBackend::getSampleRate reports the configured output rate when there
\* is one; KokoroBackend::getSampleRate always reports SAMPLE_RATE.
getSampleRate ==
    IF IsMatcha
    THEN IF config_.output_sample_rate > 0 THEN config_.output_sample_rate
                                           ELSE sample_rate_
    ELSE SAMPLE_RATE

\* ------------------------------------------------------------------------
\* setSpeed / setSpeaker / setCallback
\* ------------------------------------------------------------------------

\* speed <= 0.0f || speed > 10.0f
SpeedIsInvalid(speed) == speed <= 0 \/ speed > MaxSpeed

\* speaker_id < 0 || speaker_id >= num_speakers_
SpeakerIsInvalid(speaker_id) == speaker_id < 0 \/ speaker_id >= num_speakers_

\* MatchaBackend::setSpeed and KokoroBackend::setSpeed have the same body.
SetSpeed(speed) ==
    /\ IF SpeedIsInvalid(speed)
       THEN /\ Returns("setSpeed", speed, "INVALID_CONFIG")
            /\ UNCHANGED current_speed_
       ELSE /\ current_speed_' = speed
            /\ Returns("setSpeed", speed, "OK")
    /\ UNCHANGED <<type_, initialized_, env_, acoustic_model_, vocoder_model_,
                   session_, token_to_id_, config_, sample_rate_, num_speakers_,
                   current_speaker_, callback_>>
    /\ NoResult

\* The error code of setSpeaker: MatchaBackend overrides it, KokoroBackend
\* inherits ITtsBackend::setSpeaker, which refuses every id.
SetSpeakerCode(speaker_id) ==
    IF IsMatcha
    THEN IF SpeakerIsInvalid(speaker_id) THEN "INVALID_CONFIG" ELSE "OK"
    ELSE "INTERNAL_ERROR"

SetSpeaker(speaker_id) ==
    /\ current_speaker_' = IF SetSpeakerCode(speaker_id) = "OK" THEN speaker_id
                                                                ELSE current_speaker_
    /\ Returns("setSpeaker", speaker_id, SetSpeakerCode(speaker_id))
    /\ UNCHANGED <<type_, initialized_, env_, acoustic_model_, vocoder_model_,
                   session_, token_to_id_, config_, sample_rate_, num_speakers_,
                   current_speed_, callback_>>
    /\ NoResult

\* ITtsBackend::setVolume, which no backend overrides.
SetVolume(volume) ==
    /\ Returns("setVolume", volume, "INTERNAL_ERROR")
    /\ UNCHANGED backendVars
    /\ NoResult

\* The conversion of the float volume / 100.0f to the int parameter of
\* setVolume: truncation toward zero.
VolumeAsInt(volume) ==
    IF volume >= 0 THEN volume \div 100 ELSE -((-volume) \div 100)

SetCallback(cb) ==
    /\ callback_' = cb
    /\ Returns("setCallback", "-", "OK")
    /\ UNCHANGED <<type_, initialized_, env_, acoustic_model_, vocoder_model_,
                   session_, token_to_id_, config_, sample_rate_, num_speakers_,
                   current_speed_, current_speaker_>>
    /\ NoResult

\* ------------------------------------------------------------------------
\* The backend driven through its public interface by one caller
\* ------------------------------------------------------------------------
Init ==
    /\ BackendInit
    /\ type_ \in BackendKinds
    /\ NoEngine
    /\ NoThreads
    /\ NoFn

Next ==
    \/ Initialize /\ UNCHANGED <<engVars, thrVars, fnVars>>
    \/ Shutdown /\ UNCHANGED <<engVars, thrVars, fnVars>>
    \/ \E text \in Texts, run \in Runs : Synthesize(text, run) /\ UNCHANGED <<engVars, thrVars, fnVars>>
    \/ \E speed \in SpeedArgs : SetSpeed(speed) /\ UNCHANGED <<engVars, thrVars, fnVars>>
    \/ \E speaker_id \in SpeakerArgs : SetSpeaker(speaker_id) /\ UNCHANGED <<engVars, thrVars, fnVars>>
    \/ \E cb \in BOOLEAN : SetCallback(cb) /\ UNCHANGED <<engVars, thrVars, fnVars>>

Spec == Init /\ [][Next]_vars

\* ------------------------------------------------------------------------
\* TtsEngine
\* ------------------------------------------------------------------------
EngineKinds == {"MATCHA_ZH", "MATCHA_EN", "MATCHA_ZH_EN", "COSYVOICE", "VITS",
                "PIPER", "KOKORO", "CUSTOM"}
EngineConfigs == [backend : EngineKinds, speech_rate : ConfigSpeeds,
                  speaker_id : {0}, volume : {DefaultVolume},
                  enable_warmup : BOOLEAN]

\* convertBackendType: Evo::BackendType to tts::BackendType.
convertBackendType(kind) ==
    IF kind \in {"MATCHA_ZH", "MATCHA_EN", "MATCHA_ZH_EN", "VITS", "PIPER", "KOKORO"}
    THEN kind
    ELSE "MATCHA_ZH"

\* The enumerators of tts::BackendType, and a value that names none of them.
BackendTypes == {"MATCHA_ZH", "MATCHA_EN", "MATCHA_ZH_EN", "COSYVOICE", "VITS",
                 "PIPER", "KOKORO", "CUSTOM", "unnamed"}

\* Mutant: a factory that falls back to the Chinese backend.
create_fallback(type) ==
    CASE type = "MATCHA_ZH" -> "MatchaZhBackend"
      [] type = "MATCHA_EN" -> "MatchaEnBackend"
      [] type = "MATCHA_ZH_EN" -> "MatchaZhEnBackend"
      [] type = "KOKORO" -> "KokoroBackend"
      [] OTHER -> "MatchaZhBackend"

\* TtsBackendFactory::create: the class of the object it makes, "nullptr"
\* when it makes none.
create(type) ==
    CASE type = "MATCHA_ZH" -> "MatchaZhBackend"
      [] type = "MATCHA_EN" -> "MatchaEnBackend"
      [] type = "MATCHA_ZH_EN" -> "MatchaZhEnBackend"
      [] type = "KOKORO" -> "KokoroBackend"
      [] type \in {"COSYVOICE", "VITS", "PIPER", "CUSTOM"} -> "nullptr"
      [] OTHER -> "nullptr"

\* TtsBackendFactory::isAvailable
isAvailable(type) == type \in {"MATCHA_ZH", "MATCHA_EN", "MATCHA_ZH_EN", "KOKORO"}

\* TtsBackendFactory::create returns a backend (not nullptr) for these kinds.
FactoryCreates(kind) == create(kind) # "nullptr"

\* The tts::TtsConfig that Impl::init hands to the backend: the fields it
\* copies, the defaults of tts::TtsConfig for the others.
InternalConfig(cfg) ==
    [speech_rate |-> cfg.speech_rate, speaker_id |-> cfg.speaker_id,
     output_sample_rate |-> 0, enable_warmup |-> cfg.enable_warmup]

\* TtsEngine's constructors: TtsEngine::Impl::init(cfg).
EngineInit(cfg, outcome) ==
    /\ ~eng_constructed
    /\ eng_constructed' = TRUE
    /\ eng_config' = cfg
    /\ IF FactoryCreates(convertBackendType(cfg.backend))
       THEN /\ eng_backend' = TRUE
            /\ type_' = convertBackendType(cfg.backend)
            /\ IF type_' \in MatchaKinds
               THEN /\ outcome \in MatchaInitOutcomes
                    /\ MatchaInitializeBody(type_', InternalConfig(cfg), outcome)
               ELSE /\ outcome \in KokoroInitOutcomes
                    /\ KokoroInitializeBody(InternalConfig(cfg), outcome)
            /\ eng_initialized' = (lastErr' = "OK")
       ELSE /\ outcome = "ok"
            /\ eng_backend' = FALSE
            /\ eng_initialized' = FALSE
            /\ UNCHANGED <<backendVars, obsVars>>
    /\ engOp' = "TtsEngine"
    /\ UNCHANGED <<callResult, cbLog, eventArg, errorArg, engArg, callPtr, toFile>>

\* The TtsEngineResult that TtsEngine::Call builds from the backend's answer r.
CallResultOf(r) ==
    IF r.code # "OK"
    THEN [success |-> FALSE, samples |-> 0, sample_rate |-> DefaultResultRate,
          message |-> r.info.message]
    ELSE [success |-> TRUE, samples |-> r.result.samples,
          sample_rate |-> r.result.sample_rate, message |-> <<>>]

EngineNotInitialized ==
    [success |-> FALSE, samples |-> 0, sample_rate |-> DefaultResultRate,
     message |-> <<"Engine not initialized">>]

\* TtsEngine::Call without its caller: the result it returns and what it
\* does to the backend.
\* Every return statement of Call returns the result it made with
\* std::make_shared at its first line.
CallReturnsResult(r) == TRUE

CallBody(text, run) ==
    /\ IF ~eng_initialized \/ ~eng_backend
       THEN /\ callResult' = EngineNotInitialized
            /\ UNCHANGED <<backendVars, obsVars>>
       ELSE /\ callResult' = CallResultOf(BackendSynthesize(text, run))
            /\ Synthesize(text, run)
    /\ callPtr' = CallReturnsResult(callResult')
    /\ engArg' = 0

Call(text, run) ==
    /\ eng_constructed
    /\ CallBody(text, run)
    /\ engOp' = "Call"
    /\ cbLog' = <<>>
    /\ eventArg' = NoCallResult
    /\ errorArg' = <<>>
    /\ toFile' = NoToFile
    /\ UNCHANGED <<eng_constructed, eng_backend, eng_initialized, eng_config>>

\* The header TtsEngineResult::SaveToFile writes for the result r.
WavFile(r) == [exists |-> TRUE, audio_format |-> 1, channels |-> 1,
               bits_per_sample |-> 16, sample_rate |-> r.sample_rate,
               samples |-> r.samples]

\* A file that was opened (and so created or emptied) and not written whole.
BrokenFile == [NoFile EXCEPT !.exists = TRUE]

\* TtsEngineResult::SaveToFile(file_path) on the result r: what it returns
\* and the file it leaves.
SaveToFile(r, io) ==
    IF r.samples = 0 THEN [ret |-> FALSE, io |-> "-", file |-> NoFile]
    ELSE IF io = "open_fail" THEN [ret |-> FALSE, io |-> io, file |-> NoFile]
    ELSE IF io = "write_fail" THEN [ret |-> FALSE, io |-> io, file |-> BrokenFile]
    ELSE [ret |-> TRUE, io |-> io, file |-> WavFile(r)]

\* TtsEngine::CallToFile(text, file_path), file_path naming no file before
\* the call.  The outcome of the file system is an input only when the file
\* is opened.
CallToFile(text, io, run) ==
    /\ eng_constructed
    /\ CallBody(text, run)
    /\ engOp' = "CallToFile"
    /\ IF ~callPtr' \/ ~callResult'.success
       THEN /\ io = "ok"
            /\ toFile' = NoToFile
       ELSE /\ callResult'.samples = 0 => io = "ok"
            /\ toFile' = SaveToFile(callResult', io)
    /\ cbLog' = <<>>
    /\ eventArg' = NoCallResult
    /\ errorArg' = <<>>
    /\ UNCHANGED <<eng_constructed, eng_backend, eng_initialized, eng_config>>

\* Mutant: OnComplete invoked before OnEvent.
StreamingCallbacks_completeFirst(callback, r) ==
    IF callback
    THEN <<"OnOpen">>
         \o (IF r.success THEN <<"OnComplete", "OnEvent">> ELSE <<"OnError">>)
         \o <<"OnClose">>
    ELSE <<>>

\* Mutant: OnClose invoked on the success path only.
StreamingCallbacks_noCloseOnError(callback, r) ==
    IF callback
    THEN <<"OnOpen">>
         \o (IF r.success THEN <<"OnEvent", "OnComplete", "OnClose">> ELSE <<"OnError">>)
    ELSE <<>>

\* The callbacks TtsEngine::StreamingCall invokes around a Call whose result
\* is r, in the order of invocation.
StreamingCallbacks(callback, r) ==
    IF callback
    THEN <<"OnOpen">>
         \o (IF r.success THEN <<"OnEvent", "OnComplete">> ELSE <<"OnError">>)
         \o <<"OnClose">>
    ELSE <<>>

\* TtsEngine::StreamingCall(text, callback); callback = FALSE is a null
\* pointer.
StreamingCall(text, callback, run) ==
    /\ eng_constructed
    /\ CallBody(text, run)
    /\ engOp' = IF callback THEN "StreamingCall" ELSE "StreamingCall(null)"
    /\ cbLog' = StreamingCallbacks(callback, callResult')
    /\ eventArg' = IF callback /\ callResult'.success THEN callResult' ELSE NoCallResult
    /\ errorArg' = IF callback /\ ~callResult'.success THEN callResult'.message ELSE <<>>
    /\ toFile' = NoToFile
    /\ UNCHANGED <<eng_constructed, eng_backend, eng_initialized, eng_config>>

\* The engine setters return nothing; they leave no result behind.
NoCall ==
    /\ callResult' = NoCallResult
    /\ cbLog' = <<>>
    /\ eventArg' = NoCallResult
    /\ errorArg' = <<>>
    /\ callPtr' = FALSE
    /\ toFile' = NoToFile

\* TtsEngine::SetSpeed
EngineSetSpeed(speed) ==
    /\ eng_constructed
    /\ eng_config' = [eng_config EXCEPT !.speech_rate = speed]
    /\ IF eng_backend THEN SetSpeed(speed) ELSE UNCHANGED <<backendVars, obsVars>>
    /\ engOp' = "SetSpeed"
    /\ engArg' = speed
    /\ NoCall
    /\ UNCHANGED <<eng_constructed, eng_backend, eng_initialized>>

\* TtsEngine::SetSpeaker
EngineSetSpeaker(speaker_id) ==
    /\ eng_constructed
    /\ eng_config' = [eng_config EXCEPT !.speaker_id = speaker_id]
    /\ IF eng_backend THEN SetSpeaker(speaker_id) ELSE UNCHANGED <<backendVars, obsVars>>
    /\ engOp' = "SetSpeaker"
    /\ engArg' = speaker_id
    /\ NoCall
    /\ UNCHANGED <<eng_constructed, eng_backend, eng_initialized>>

\* Mutant: SetVolume that only records the volume.
ForwardsVolume_never == FALSE

\* if (impl_->backend) impl_->backend->setVolume(...)
ForwardsVolume == eng_backend

\* TtsEngine::SetVolume
EngineSetVolume(volume) ==
    /\ eng_constructed
    /\ eng_config' = [eng_config EXCEPT !.volume = volume]
    /\ IF ForwardsVolume THEN SetVolume(VolumeAsInt(volume))
                          ELSE UNCHANGED <<backendVars, obsVars>>
    /\ engOp' = "SetVolume"
    /\ engArg' = volume
    /\ NoCall
    /\ UNCHANGED <<eng_constructed, eng_backend, eng_initialized>>

InitEngine ==
    /\ BackendInit
    /\ type_ = "none"
    /\ NoEngine
    /\ NoThreads
    /\ NoFn

NextEngine ==
    \/ \E cfg \in EngineConfigs, outcome \in MatchaInitOutcomes \cup KokoroInitOutcomes :
          EngineInit(cfg, outcome) /\ UNCHANGED <<thrVars, fnVars>>
    \/ \E text \in Texts, run \in Runs : Call(text, run) /\ UNCHANGED <<thrVars, fnVars>>
    \/ \E text \in Texts, io \in {"ok", "open_fail", "write_fail"}, run \in Runs :
          CallToFile(text, io, run) /\ UNCHANGED <<thrVars, fnVars>>
    \/ \E text \in Texts, callback \in BOOLEAN, run \in Runs :
          StreamingCall(text, callback, run) /\ UNCHANGED <<thrVars, fnVars>>

SpecEngine == InitEngine /\ [][NextEngine]_vars

\* The engine driven through its constructor and its dynamic setters.
NextSetters ==
    \/ \E cfg \in EngineConfigs, outcome \in MatchaInitOutcomes \cup KokoroInitOutcomes :
          EngineInit(cfg, outcome) /\ UNCHANGED <<thrVars, fnVars>>
    \/ \E speed \in SpeedArgs : EngineSetSpeed(speed) /\ UNCHANGED <<thrVars, fnVars>>
    \/ \E speaker_id \in SpeakerArgs :
          EngineSetSpeaker(speaker_id) /\ UNCHANGED <<thrVars, fnVars>>
    \/ \E volume \in {-50, 0, 50, 250} : EngineSetVolume(volume) /\ UNCHANGED <<thrVars, fnVars>>

SpecSetters == InitEngine /\ [][NextSetters]_vars

\* ------------------------------------------------------------------------
\* synthesize called from several threads
\* ------------------------------------------------------------------------
\* pc[t] is the position of thread t:
\*   idle                      not inside synthesize
\*   acoustic_lock / _run      runAcousticModel, at / after its lock_guard
\*   vocoder_lock / _run       runVocoder, at / after its lock_guard
\*   infer_lock / _run         KokoroBackend::runInference, at / after its
\*                             lock_guard
\*   done                      synthesize has returned tres[t]
LockStates == {"acoustic_lock", "vocoder_lock", "infer_lock"}
RunStates == {"acoustic_run", "vocoder_run", "infer_run"}

Goto(t, where) == pc' = [pc EXCEPT ![t] = where]

Finish(t, code) ==
    /\ Goto(t, "done")
    /\ tres' = [tres EXCEPT ![t] = code]

\* synthesize up to the first session run: the two checks, normalisation and
\* textToTokenIds (which throws when throws is true).
ThreadBegin(t, text, tokens, throws) ==
    /\ pc[t] = "idle"
    /\ IF SynthesizeRejects THEN Finish(t, "NOT_INITIALIZED")
       ELSE IF TextIsEmpty(text) THEN Finish(t, "INVALID_TEXT")
       ELSE IF throws THEN Finish(t, "SYNTHESIS_FAILED")
       ELSE IF TokensOf(type_, tokens) = <<>> THEN Finish(t, "OK")
       ELSE /\ Goto(t, IF IsMatcha THEN "acoustic_lock" ELSE "infer_lock")
            /\ UNCHANGED tres
    /\ UNCHANGED <<inference_mutex_, backendVars, obsVars, engVars, fnVars, sd>>

\* Mutant: a lock that never waits.
MutexFree_always == TRUE

\* std::mutex::lock can return only when no thread owns the mutex.
MutexFree == inference_mutex_ = 0

\* std::lock_guard<std::mutex> lock(inference_mutex_): the constructor
\* returns once the thread owns the mutex.
LockGuard(t, where) ==
    /\ MutexFree
    /\ inference_mutex_' = t
    /\ Goto(t, where)
    /\ UNCHANGED <<tres, backendVars, obsVars, engVars, fnVars, sd>>

\* The end of the scope of the lock_guard, on return and on exception alike.
Unlock == inference_mutex_' = 0

\* runAcousticModel: the lock_guard, then acoustic_model_->Run.
AcousticLock(t) ==
    /\ pc[t] = "acoustic_lock"
    /\ LockGuard(t, "acoustic_run")

\* The rest of runAcousticModel and synthesize up to the call of runVocoder;
\* how is what the session did: "throw", "empty" (no mel) or "ok".
AcousticRun(t, how) ==
    /\ pc[t] = "acoustic_run"
    /\ Unlock
    /\ CASE how = "throw" -> Finish(t, "SYNTHESIS_FAILED")
         [] how = "empty" -> Finish(t, "OK")
         [] OTHER -> Goto(t, "vocoder_lock") /\ UNCHANGED tres
    /\ UNCHANGED <<backendVars, obsVars, engVars, fnVars, sd>>

\* Mutant: runVocoder without its lock_guard.
VocoderLock_unguarded(t) ==
    /\ pc[t] = "vocoder_lock"
    /\ Goto(t, "vocoder_run")
    /\ UNCHANGED <<inference_mutex_, tres, backendVars, obsVars, engVars, fnVars, sd>>

\* runVocoder: the lock_guard, then vocoder_model_->Run.
VocoderLock(t) ==
    /\ pc[t] = "vocoder_lock"
    /\ LockGuard(t, "vocoder_run")

\* The rest of runVocoder (ISTFT and post-processing run under the lock) and
\* of synthesize.
VocoderRun(t, how) ==
    /\ pc[t] = "vocoder_run"
    /\ Unlock
    /\ Finish(t, IF how = "throw" THEN "SYNTHESIS_FAILED" ELSE "OK")
    /\ UNCHANGED <<backendVars, obsVars, engVars, fnVars, sd>>

\* KokoroBackend::runInference: the lock_guard, then session_->Run.
InferLock(t) ==
    /\ pc[t] = "infer_lock"
    /\ LockGuard(t, "infer_run")

\* The rest of runInference and of KokoroBackend::synthesize.
InferRun(t, how) ==
    /\ pc[t] = "infer_run"
    /\ Unlock
    /\ Finish(t, IF how = "throw" THEN "SYNTHESIS_FAILED" ELSE "OK")
    /\ UNCHANGED <<backendVars, obsVars, engVars, fnVars, sd>>

\* The caller takes the returned ErrorInfo.
ThreadReturn(t) ==
    /\ pc[t] = "done"
    /\ pc' = [pc EXCEPT ![t] = "idle"]
    /\ tres' = [tres EXCEPT ![t] = "-"]
    /\ UNCHANGED <<inference_mutex_, backendVars, obsVars, engVars, fnVars, sd>>

\* The owner of the backend calls initialize and shutdown while no
\* synthesize call is in flight.
Quiescent == \A t \in Threads : pc[t] = "idle"

InitConc ==
    /\ BackendInit
    /\ type_ \in BackendKinds
    /\ NoEngine
    /\ NoThreads
    /\ NoFn

NextConc ==
    \/ Quiescent /\ Initialize /\ UNCHANGED <<engVars, thrVars, fnVars>>
    \/ Quiescent /\ Shutdown /\ UNCHANGED <<engVars, thrVars, fnVars>>
    \/ \E t \in Threads, text \in Texts, tokens \in TokenSeqs, throws \in BOOLEAN :
          ThreadBegin(t, text, tokens, throws)
    \/ \E t \in Threads : AcousticLock(t)
    \/ \E t \in Threads, how \in {"throw", "empty", "ok"} : AcousticRun(t, how)
    \/ \E t \in Threads : VocoderLock(t)
    \/ \E t \in Threads, how \in {"throw", "ok"} : VocoderRun(t, how)
    \/ \E t \in Threads : InferLock(t)
    \/ \E t \in Threads, how \in {"throw", "ok"} : InferRun(t, how)
    \/ \E t \in Threads : ThreadReturn(t)

SpecConc == InitConc /\ [][NextConc]_vars

\* ------------------------------------------------------------------------
\* shutdown statement by statement, while other threads call synthesize
\* ------------------------------------------------------------------------
\* sd is the statement of shutdown its caller executes next:
\*   idle       not inside shutdown
\*   acoustic   acoustic_model_.reset()      (MatchaBackend)
\*   vocoder    vocoder_model_.reset()       (MatchaBackend)
\*   session    session_.reset()             (KokoroBackend)
\*   env        env_.reset()
\*   tokens     token_to_id_.clear()         (MatchaBackend)
\*   flag       initialized_ = false
\*   crashed    the process has been terminated
ShutdownStep(where) ==
    /\ sd' = where
    /\ UNCHANGED <<pc, inference_mutex_, tres, obsVars, engVars, fnVars>>

\* Mutant: the environment is destroyed first and the sessions are kept.
ShutdownBegin_envFirst ==
    /\ sd = "idle"
    /\ initialized_
    /\ ShutdownStep("env")
    /\ UNCHANGED backendVars

\* if (initialized_) { shutdownLanguageSpecific(); ...: shutdown takes no
\* lock and waits for no synthesize call.
ShutdownBegin ==
    /\ sd = "idle"
    /\ initialized_
    /\ ShutdownStep(IF IsMatcha THEN "acoustic" ELSE "session")
    /\ UNCHANGED backendVars

\* acoustic_model_.reset()
ShutdownAcoustic ==
    /\ sd = "acoustic"
    /\ acoustic_model_' = FALSE
    /\ ShutdownStep("vocoder")
    /\ UNCHANGED <<type_, initialized_, env_, vocoder_model_, session_, token_to_id_,
                   config_, sample_rate_, num_speakers_, current_speed_,
                   current_speaker_, callback_>>

\* vocoder_model_.reset()
ShutdownVocoder ==
    /\ sd = "vocoder"
    /\ vocoder_model_' = FALSE
    /\ ShutdownStep("env")
    /\ UNCHANGED <<type_, initialized_, env_, acoustic_model_, session_, token_to_id_,
                   config_, sample_rate_, num_speakers_, current_speed_,
                   current_speaker_, callback_>>

\* session_.reset()
ShutdownSession ==
    /\ sd = "session"
    /\ session_' = FALSE
    /\ ShutdownStep("env")
    /\ UNCHANGED <<type_, initialized_, env_, acoustic_model_, vocoder_model_,
                   token_to_id_, config_, sample_rate_, num_speakers_,
                   current_speed_, current_speaker_, callback_>>

\* env_.reset()
ShutdownEnv ==
    /\ sd = "env"
    /\ env_' = FALSE
    /\ ShutdownStep(IF IsMatcha THEN "tokens" ELSE "flag")
    /\ UNCHANGED <<type_, initialized_, acoustic_model_, vocoder_model_, session_,
                   token_to_id_, config_, sample_rate_, num_speakers_,
                   current_speed_, current_speaker_, callback_>>

\* token_to_id_.clear()
ShutdownTokens ==
    /\ sd = "tokens"
    /\ token_to_id_' = {}
    /\ ShutdownStep("flag")
    /\ UNCHANGED <<type_, initialized_, env_, acoustic_model_, vocoder_model_,
                   session_, config_, sample_rate_, num_speakers_, current_speed_,
                   current_speaker_, callback_>>

\* initialized_ = false, and shutdown returns.
ShutdownFlag ==
    /\ sd = "flag"
    /\ initialized_' = FALSE
    /\ ShutdownStep("idle")
    /\ UNCHANGED <<type_, env_, acoustic_model_, vocoder_model_, session_,
                   token_to_id_, config_, sample_rate_, num_speakers_,
                   current_speed_, current_speaker_, callback_>>

\* The session a thread at (or past the lock_guard of) a run calls Run on
\* is owned by its unique_ptr.
SessionOf(where) ==
    CASE where \in {"acoustic_lock", "acoustic_run"} -> acoustic_model_
      [] where \in {"vocoder_lock", "vocoder_run"} -> vocoder_model_
      [] where \in {"infer_lock", "infer_run"} -> session_
      [] OTHER -> TRUE

\* session->Run on a unique_ptr that shutdown has reset, or on a session
\* that shutdown destroys during the run: the behaviour is undefined.  The
\* run may go on as if nothing had happened (AcousticRun, VocoderRun,
\* InferRun) or the process may be terminated by a signal, which is this
\* step.
RunOnDestroyedSession(t) ==
    /\ pc[t] \in RunStates
    /\ ~SessionOf(pc[t])
    /\ pc' = [u \in Threads |-> "crashed"]
    /\ sd' = "crashed"
    /\ UNCHANGED <<inference_mutex_, tres, backendVars, obsVars, engVars, fnVars>>

\* The owner calls initialize between the calls of the other threads;
\* shutdown is called at any moment.
NextShutdown ==
    \/ Quiescent /\ sd = "idle" /\ Initialize /\ UNCHANGED <<engVars, thrVars, fnVars>>
    \/ ShutdownBegin
    \/ ShutdownAcoustic
    \/ ShutdownVocoder
    \/ ShutdownSession
    \/ ShutdownEnv
    \/ ShutdownTokens
    \/ ShutdownFlag
    \/ \E t \in Threads, text \in Texts, tokens \in TokenSeqs, throws \in BOOLEAN :
          ThreadBegin(t, text, tokens, throws)
    \/ \E t \in Threads : AcousticLock(t)
    \/ \E t \in Threads, how \in {"throw", "empty", "ok"} : AcousticRun(t, how)
    \/ \E t \in Threads : VocoderLock(t)
    \/ \E t \in Threads, how \in {"throw", "ok"} : VocoderRun(t, how)
    \/ \E t \in Threads : InferLock(t)
    \/ \E t \in Threads, how \in {"throw", "ok"} : InferRun(t, how)
    \/ \E t \in Threads : ThreadReturn(t)
    \/ \E t \in Threads : RunOnDestroyedSession(t)

SpecShutdown == InitConc /\ [][NextShutdown]_vars

\* ------------------------------------------------------------------------
\* The factory and the token and number utilities, applied to given arguments
\* ------------------------------------------------------------------------

\* The loop of addBlankTokens: result[i] = token; i += 2 (i counts from 0,
\* res is the vector result).
RECURSIVE PlaceTokens(_, _, _)
PlaceTokens(res, tokens, i) ==
    IF tokens = <<>> THEN res
    ELSE PlaceTokens([res EXCEPT ![i + 1] = Head(tokens)], Tail(tokens), i + 2)

\* Mutant: the blanks appended after the tokens.
addBlankTokens_appended(tokens, pad_id) ==
    tokens \o [k \in 1..(Len(tokens) + 1) |-> pad_id]

\* MatchaBackend::addBlankTokens, pad_id being the member pad_id_.
addBlankTokens(tokens, pad_id) ==
    PlaceTokens([k \in 1..(Len(tokens) * 2 + 1) |-> pad_id], tokens, 1)

\* The array digits of intToChineseReading.  A reading is the sequence of
\* its characters, each written by its name: ling .. jiu for the digits,
\* shi, bai, qian, wan for ten, hundred, thousand and ten thousand, YI for
\* a hundred million and fu for the minus sign.
digits == <<"ling", "yi", "er", "san", "si", "wu", "liu", "qi", "ba", "jiu">>

\* The int64_t argument num is held as its sign and two limbs,
\* |num| = hi * 10^6 + lo with lo < 10^6, so that every intermediate value
\* stays below 2^31.
Int64(n) == [neg |-> FALSE, hi |-> n \div 1000000, lo |-> n % 1000000]

\* if (num > 0 && num < bound) result += "零"
ZeroBefore(num, bound) == IF num > 0 /\ num < bound THEN <<"ling">> ELSE <<>>

\* Mutant: ten always read with its digit.
TensOf_always(res, num) == <<digits[(num \div 10) + 1], "shi">>

\* The branch num >= 10: the digit of the tens is left out for 10..19 at
\* the start of a reading.
TensOf(res, num) ==
    (IF num \div 10 # 1 \/ Len(res) > 0 THEN <<digits[(num \div 10) + 1]>> ELSE <<>>)
        \o <<"shi">>

\* The branches num >= 1000, num >= 100, num >= 10 and num > 0 of
\* intToChineseReading, entered with num < 10000.
ReadThousands(res, num) ==
    LET r1 == IF num >= 1000
              THEN res \o <<digits[(num \div 1000) + 1], "qian">>
                          \o ZeroBefore(num % 1000, 100)
              ELSE res
        n1 == IF num >= 1000 THEN num % 1000 ELSE num
        r2 == IF n1 >= 100
              THEN r1 \o <<digits[(n1 \div 100) + 1], "bai">> \o ZeroBefore(n1 % 100, 10)
              ELSE r1
        n2 == IF n1 >= 100 THEN n1 % 100 ELSE n1
        r3 == IF n2 >= 10 THEN r2 \o TensOf(r2, n2) ELSE r2
        n3 == IF n2 >= 10 THEN n2 % 10 ELSE n2
    IN  IF n3 > 0 THEN r3 \o <<digits[n3 + 1]>> ELSE r3

\* intToChineseReading(num) for num given by its limbs.
RECURSIVE intToChineseReading(_)
intToChineseReading(num) ==
    IF num.hi = 0 /\ num.lo = 0 THEN <<"ling">>
    ELSE IF num.neg THEN <<"fu">> \o intToChineseReading([num EXCEPT !.neg = FALSE])
    ELSE
      LET \* num >= 10^12
          r1 == IF num.hi >= 1000000
                THEN intToChineseReading(Int64(num.hi \div 1000000)) \o <<"wan", "YI">>
                       \o (IF (num.hi % 1000000 > 0 \/ num.lo > 0)
                              /\ num.hi % 1000000 < 100000
                           THEN <<"ling">> ELSE <<>>)
                ELSE <<>>
          h1 == IF num.hi >= 1000000 THEN num.hi % 1000000 ELSE num.hi
          \* num >= 10^8; what is left of num is below 10^8 afterwards
          n2 == IF h1 >= 100 THEN (h1 % 100) * 1000000 + num.lo
                             ELSE h1 * 1000000 + num.lo
          r2 == IF h1 >= 100
                THEN r1 \o intToChineseReading(Int64(h1 \div 100)) \o <<"YI">>
                        \o ZeroBefore(n2, 10000000)
                ELSE r1
          \* num >= 10^4
          r3 == IF n2 >= 10000
                THEN r2 \o intToChineseReading(Int64(n2 \div 10000)) \o <<"wan">>
                        \o ZeroBefore(n2 % 10000, 1000)
                ELSE r2
          n3 == IF n2 >= 10000 THEN n2 % 10000 ELSE n2
      IN  ReadThousands(r3, n3)

\* ---- vocoder::istft ----

\* A resource event: <<"open" or "close", the resource>>.
\* One frame of istft whose allocations succeed: posix_memalign of in and
\* out, fftwf_plan_dft_c2r_1d, then fftwf_destroy_plan, free(in), free(out).
FrameEvents == <<<<"open", "in">>, <<"open", "out">>, <<"open", "plan">>,
                <<"close", "plan">>, <<"close", "in">>, <<"close", "out">>>>

\* The frame in which a posix_memalign fails: the one of in throws at once,
\* the one of out frees in and throws.
FailedFrameEvents(fail_on) ==
    IF fail_on = "in" THEN <<>> ELSE <<<<"open", "in">>, <<"close", "in">>>>

RECURSIVE Repeated(_, _)
Repeated(events, n) == IF n = 0 THEN <<>> ELSE events \o Repeated(events, n - 1)

\* vocoder::istft(stft_real, stft_imag, num_frames, n_fft_bins, config):
\* the indices at which it reads the vector window and reads or writes the
\* vectors audio and denominator, and the memory it acquires and releases.
\* a.fail_at is the frame (counted from 1) in which an allocation fails, 0
\* when none does.
istft(a) ==
    LET audio_length == a.n_fft + (a.num_frames - 1) * a.hop_length
        done == IF a.fail_at = 0 THEN a.num_frames ELSE a.fail_at - 1
        frames == 0..(done - 1)
        \* for (i = 0; i < win_length && i < n_fft; ++i) out[i] *= window[i]
        windowed == IF done > 0
                    THEN {i \in 0..(a.n_fft - 1) : i < a.win_length}
                    ELSE {}
        \* for (i = 0; i < n_fft; ++i) if (start_pos + i < audio_length)
        \*     { audio[start_pos + i] += out[i];
        \*       denominator[start_pos + i] += window[i] * window[i]; }
        added == {p \in frames \X (0..(a.n_fft - 1)) :
                     p[1] * a.hop_length + p[2] < audio_length}
    IN  [window_size |-> a.win_length,
         audio_length |-> audio_length,
         window_reads |-> windowed \cup {p[2] : p \in added},
         buffer_accesses |-> {p[1] * a.hop_length + p[2] : p \in added}
                               \cup (IF a.fail_at = 0 THEN 0..(audio_length - 1) ELSE {}),
         events |-> Repeated(FrameEvents, done)
                       \o (IF a.fail_at = 0 THEN <<>> ELSE FailedFrameEvents(a.fail_on)),
         thrown |-> a.fail_at # 0]

\* ---- KokoroVoiceManager::getStyleVector ----

\* Mutant: the row is not clamped from below.
ClampRow_noFloor(token_len, num_rows) ==
    IF token_len < num_rows - 1 THEN token_len ELSE num_rows - 1

\* row = std::min(token_len, num_rows_ - 1); row = std::max(row, 0)
ClampRow(token_len, num_rows) ==
    LET row == IF token_len < num_rows - 1 THEN token_len ELSE num_rows - 1
    IN  IF row > 0 THEN row ELSE 0

\* getStyleVector(token_len) on a voice matrix of num_rows rows (0 rows:
\* style_data_ is empty): the row it picks (-1 for the vector of zeros it
\* makes when no voice is loaded) and the range [first, last) of style_data_
\* it copies.
getStyleVector(token_len, num_rows) ==
    IF num_rows = 0
    THEN [row |-> -1, first |-> 0, last |-> 0, size |-> STYLE_DIM]
    ELSE LET offset == ClampRow(token_len, num_rows) * STYLE_DIM
         IN  [row |-> ClampRow(token_len, num_rows), first |-> offset,
              last |-> offset + STYLE_DIM, size |-> (offset + STYLE_DIM) - offset]

\* ---- pipes to espeak-ng and the WAV file of saveToFile ----

\* Mutant: a pipe held by a plain pointer, which nothing closes at the end
\* of the scope.
ScopeExit_plainPointer(owned) == <<>>

\* The destructor of std::unique_ptr<FILE, decltype(&pclose)>: it calls
\* pclose when the pointer still owns the pipe.
ScopeExit(owned) == IF owned THEN <<<<"close", "pipe">>>> ELSE <<>>

\* What happens to one run of espeak-ng through popen.
PipeOutcomes == {"popen_fail", "read_throw", "exit_nonzero", "clean_throw", "ok"}

\* The body both MatchaBackend::checkEspeakNgAvailable and
\* processEnglishTextToPhonemes have around their pipe: popen into the
\* unique_ptr, fgets and result += buffer (which may throw), then
\* pclose(pipe.release()); the rest of the function (the cleaning of the
\* result, which may throw) runs with the pointer released.
PipeEvents(outcome) ==
    CASE outcome = "popen_fail" -> ScopeExit(FALSE)
      [] outcome = "read_throw" -> <<<<"open", "pipe">>>> \o ScopeExit(TRUE)
      [] OTHER -> <<<<"open", "pipe">>, <<"close", "pipe">>>> \o ScopeExit(FALSE)

\* checkEspeakNgAvailable()
checkEspeakNgAvailable(outcome) ==
    [events |-> PipeEvents(outcome),
     thrown |-> outcome = "read_throw",
     ret |-> outcome = "ok"]

\* processEnglishTextToPhonemes(text): no pipe is opened for the empty text.
processEnglishTextToPhonemes(text, outcome) ==
    IF text = ""
    THEN [events |-> <<>>, thrown |-> FALSE, ret |-> ""]
    ELSE [events |-> PipeEvents(outcome),
          thrown |-> outcome \in {"read_throw", "clean_throw"},
          ret |-> IF outcome = "ok" THEN "ipa" ELSE ""]

\* ITtsBackend::saveToFile(audio, file_path), samples being the length of
\* the audio: toInt16 runs before fopen, and nothing between fopen and
\* fclose can throw or return.
saveToFile(samples, outcome) ==
    IF samples = 0
    THEN [events |-> <<>>, thrown |-> FALSE, code |-> "INVALID_CONFIG"]
    ELSE CASE outcome = "convert_throw" ->
                [events |-> <<>>, thrown |-> TRUE, code |-> "-"]
           [] outcome = "open_fail" ->
                [events |-> <<>>, thrown |-> FALSE, code |-> "FILE_WRITE_ERROR"]
           [] OTHER ->
                [events |-> <<<<"open", "file">>, <<"close", "file">>>>,
                 thrown |-> FALSE, code |-> "OK"]

\* ---- Roman numerals in the bilingual text processing ----

\* A word is the sequence of its characters.  std::toupper on the letters
\* the words are written with.
LowerCase == <<"i", "v", "x", "l", "c", "d", "m", "e", "h", "o">>
UpperCase == <<"I", "V", "X", "L", "C", "D", "M", "E", "H", "O">>
toupper(c) ==
    IF \E k \in 1..Len(LowerCase) : LowerCase[k] = c
    THEN UpperCase[CHOOSE k \in 1..Len(LowerCase) : LowerCase[k] = c]
    ELSE c

\* text::isRomanNumeralChar
isRomanNumeralChar(c) == toupper(c) \in {"I", "V", "X", "L", "C", "D", "M"}

\* text::isRomanNumeral: at least two characters, all of them Roman
\* numeral characters.
isRomanNumeral(str) ==
    /\ Len(str) >= 2
    /\ \A k \in 1..Len(str) : isRomanNumeralChar(str[k])

\* The map values of romanToInt; operator[] gives 0 for any other key.
RomanValues(c) ==
    CASE c = "I" -> 1
      [] c = "V" -> 5
      [] c = "X" -> 10
      [] c = "L" -> 50
      [] c = "C" -> 100
      [] c = "D" -> 500
      [] c = "M" -> 1000
      [] OTHER -> 0

\* text::romanToInt: a character counts negatively when the next one is
\* worth more.
RECURSIVE romanToInt(_)
romanToInt(roman) ==
    IF roman = <<>> THEN 0
    ELSE LET value == RomanValues(toupper(roman[1]))
         IN  (IF Len(roman) > 1 /\ value < RomanValues(toupper(roman[2]))
              THEN -value ELSE value) + romanToInt(Tail(roman))

\* What the loop over the words of an English run has processed: a call of
\* processEnglishToIds on the buffered words, or a call of
\* processRomanNumeralToIds on one word, which reads romanToInt(word) as a
\* Chinese number.
EnglishCall(buffer) ==
    IF buffer = <<>> THEN <<>>
    ELSE <<[how |-> "processEnglishToIds", words |-> buffer, value |-> 0]>>

RomanCall(word) ==
    <<[how |-> "processRomanNumeralToIds", words |-> <<word>>,
       value |-> romanToInt(word)]>>

\* MatchaZhEnBackend::processZhEnText, the loop over the words of an English
\* run: the calls it makes, in order. A word goes to
\* processRomanNumeralToIds when text::isRomanNumeral accepts it.
RECURSIVE EnglishRunCalls(_, _)
EnglishRunCalls(words, non_roman_buffer) ==
    IF words = <<>> THEN EnglishCall(non_roman_buffer)
    ELSE IF isRomanNumeral(Head(words))
         THEN EnglishCall(non_roman_buffer) \o RomanCall(Head(words))
                 \o EnglishRunCalls(Tail(words), <<>>)
         ELSE EnglishRunCalls(Tail(words), Append(non_roman_buffer, Head(words)))

\* The calls that are made: a function and its argument.
FnCalls ==
    LET
        \* Arguments: the non-negative numbers below 10^6 written with the decimal
        \* digits 0 and 1, the numbers up to 120, and the numbers whose two limbs
        \* are of the first kind, with both signs; 10^12 and -10^12.
        BinaryLimbs == {d[1] + 10 * d[2] + 100 * d[3] + 1000 * d[4] + 10000 * d[5]
                          + 100000 * d[6] : d \in [1..6 -> {0, 1}]}
        Magnitudes == {[hi |-> h, lo |-> l] : h \in BinaryLimbs, l \in BinaryLimbs}
                         \cup {[hi |-> 0, lo |-> l] : l \in 0..120}
                         \cup {[hi |-> 1000000, lo |-> 0]}
        Numbers == {[neg |-> s, hi |-> m.hi, lo |-> m.lo] :
                       s \in BOOLEAN, m \in Magnitudes} \
                   {[neg |-> TRUE, hi |-> 0, lo |-> 0]}
        \* Arguments of addBlankTokens and of the Kokoro tokenization.
        BlankArgs == [tokens : UNION {[1..n -> {1, 2}] : n \in 0..(MaxTokens + 2)},
                      pad_id : {0, 3}]
        IdLengths == {0, 1, MAX_TOKEN_LENGTH - 3, MAX_TOKEN_LENGTH - 2, MAX_TOKEN_LENGTH - 1,
                      MAX_TOKEN_LENGTH, MAX_TOKEN_LENGTH + 88}
        KokoroArgs == {[no_ipa |-> FALSE, ids |-> [i \in 1..n |-> t]] :
                          n \in IdLengths, t \in {1, 2}}
                         \cup {[no_ipa |-> TRUE, ids |-> <<>>]}
        \* The STFT parameters extractModelMetadata reads from the vocoder (any
        \* integers the file names), the number of frames, and the allocation that
        \* fails.
        IstftArgs == {a \in [n_fft : {2, 4}, hop_length : {1, 2}, win_length : {2, 4, 6},
                             num_frames : 1..MaxFrames, fail_at : 0..MaxFrames,
                             fail_on : {"in", "out"}] :
                         /\ a.fail_at <= a.num_frames
                         /\ a.fail_at = 0 => a.fail_on = "in"}
        \* Token lengths (the int a size_t is converted to may be negative) and
        \* voice matrices.
        StyleArgs == [token_len : {-1000, -1, 0, 1, 2, 3, 4, MAX_TOKEN_LENGTH, 1000000},
                      num_rows : 0..3]
        PhonemeArgs == {a \in [text : Texts, outcome : PipeOutcomes] :
                           a.text = "" => a.outcome = "ok"}
        \* What happens to one ITtsBackend::saveToFile call.
        WavOutcomes == {"convert_throw", "open_fail", "write_fail", "ok"}
        WavArgs == {a \in [samples : 0..MaxSamples, outcome : WavOutcomes] :
                       a.samples = 0 => a.outcome = "ok"}
        \* English runs: one or two words, among them Roman numerals in both cases,
        \* English words written with the letters of Roman numerals, the single
        \* letter I and a word with other letters.
        Words == {<<"X", "I", "V">>, <<"i", "v">>, <<"M", "M", "X", "X", "I", "V">>,
                  <<"m", "i", "x">>, <<"d", "i", "d">>, <<"c", "i", "v", "i", "l">>,
                  <<"I">>, <<"h", "e", "l", "l", "o">>}
        EnglishRuns == {<<w>> : w \in Words} \cup {<<w, x>> : w \in Words, x \in Words}
    IN  ({"create"} \X BackendTypes)
        \cup ({"addBlankTokens"} \X BlankArgs)
        \cup ({"textToTokenIds"} \X KokoroArgs)
        \cup ({"intToChineseReading"} \X Numbers)
        \cup ({"istft"} \X IstftArgs)
        \cup ({"getStyleVector"} \X StyleArgs)
        \cup ({"checkEspeakNgAvailable"} \X (PipeOutcomes \ {"clean_throw"}))
        \cup ({"processEnglishTextToPhonemes"} \X PhonemeArgs)
        \cup ({"saveToFile"} \X WavArgs)
        \cup ({"processZhEnText"} \X EnglishRuns)

\* The call of the function name returns ret.
Applies(name, ret) ==
    /\ fn = name
    /\ ~fnDone
    /\ fnRet' = ret
    /\ fnDone' = TRUE
    /\ UNCHANGED <<fn, fnArg, backendVars, obsVars, engVars, thrVars>>

FactoryCreate == Applies("create", create(fnArg))

AddBlankTokens == Applies("addBlankTokens", addBlankTokens(fnArg.tokens, fnArg.pad_id))

TextToTokenIds == Applies("textToTokenIds", KokoroTokenIds(fnArg.no_ipa, fnArg.ids))

IntToChineseReading == Applies("intToChineseReading", intToChineseReading(fnArg))

Istft == Applies("istft", istft(fnArg))

GetStyleVector ==
    Applies("getStyleVector", getStyleVector(fnArg.token_len, fnArg.num_rows))

CheckEspeakNgAvailable ==
    Applies("checkEspeakNgAvailable", checkEspeakNgAvailable(fnArg))

ProcessEnglishTextToPhonemes ==
    Applies("processEnglishTextToPhonemes",
            processEnglishTextToPhonemes(fnArg.text, fnArg.outcome))

BackendSaveToFile == Applies("saveToFile", saveToFile(fnArg.samples, fnArg.outcome))

ProcessZhEnText == Applies("processZhEnText", EnglishRunCalls(fnArg, <<>>))

\* A call is about to be made with an argument drawn from FnCalls.
InitFn ==
    /\ BackendInit
    /\ type_ = "none"
    /\ NoEngine
    /\ NoThreads
    /\ \E call \in FnCalls : fn = call[1] /\ fnArg = call[2]
    /\ fnRet = "-"
    /\ fnDone = FALSE

NextFn ==
    \/ FactoryCreate
    \/ AddBlankTokens
    \/ TextToTokenIds
    \/ IntToChineseReading
    \/ Istft
    \/ GetStyleVector
    \/ CheckEspeakNgAvailable
    \/ ProcessEnglishTextToPhonemes
    \/ BackendSaveToFile
    \/ ProcessZhEnText

SpecFn == InitFn /\ [][NextFn]_vars

\* ========================================================================
\* Claims about the backend life cycle and its setters (under Spec)
\* ========================================================================

\* The sessions (both Matcha sessions, or the Kokoro session) and, for a
\* Matcha backend, the token map are loaded.
SessionsAndTokensLoaded ==
    IF IsMatcha THEN acoustic_model_ /\ vocoder_model_ /\ token_to_id_ # {}
                ELSE session_

\* C1: after any sequence of initialize and shutdown calls, failed
\* initialize calls included, the sessions and the token map are loaded
\* exactly when initialized_ is true.
C1_LoadedIffInitialized == SessionsAndTokensLoaded <=> initialized_

\* C4: a call of initialize on a backend whose initialized_ flag is set
\* returns ALREADY_STARTED, whatever the backend kind.
C4_InitializeTwiceFails ==
    [][(initialized_ /\ tick' # tick /\ lastOp' = "initialize")
          => lastErr' = "ALREADY_STARTED"]_vars

\* C4 witness: a Kokoro backend has refused a second initialize.
C4_Witness ==
    /\ type_ = "KOKORO"
    /\ initialized_
    /\ lastOp = "initialize"
    /\ lastErr = "ALREADY_STARTED"

\* C5: a synthesize call made while initialized_ is false (before any
\* initialize, after a failed one, or after shutdown) returns NOT_INITIALIZED,
\* leaves the result without audio and notifies no audio chunk.
C5_SynthesizeNeedsInit ==
    [][(~initialized_ /\ tick' # tick /\ lastOp' = "synthesize")
          => /\ lastErr' = "NOT_INITIALIZED"
             /\ ~result'.success
             /\ result'.samples = 0
             /\ chunks' = 0]_vars

\* C5 witness: synthesize was refused on a Matcha backend whose initialize
\* failed after it had loaded the sessions.
C5_Witness ==
    /\ ~initialized_
    /\ acoustic_model_
    /\ lastOp = "synthesize"
    /\ lastArg = "ni hao"
    /\ lastErr = "NOT_INITIALIZED"

\* C6: on every backend, setSpeed with a speed outside (0, 10] and setSpeaker
\* with an id outside [0, num_speakers) return INVALID_CONFIG and change
\* neither the current speed, the current speaker nor the configuration.
C6_InvalidSetterRejected ==
    [][(/\ tick' # tick
        /\ \/ lastOp' = "setSpeed" /\ (lastArg' <= 0 \/ lastArg' > MaxSpeed)
           \/ lastOp' = "setSpeaker" /\ (lastArg' < 0 \/ lastArg' >= num_speakers_))
          => /\ lastErr' = "INVALID_CONFIG"
             /\ UNCHANGED <<current_speed_, current_speaker_, config_>>]_vars

\* C9 as stated: every synthesize call with the empty text returns
\* INVALID_TEXT and produces no audio.
C9_EmptyTextAlwaysInvalid ==
    [][(tick' # tick /\ lastOp' = "synthesize" /\ lastArg' = "")
          => /\ lastErr' = "INVALID_TEXT"
             /\ result'.samples = 0
             /\ chunks' = 0]_vars

\* C9 amended: a synthesize call with the empty text on an initialized
\* backend returns INVALID_TEXT, leaves the result without audio and notifies
\* no audio chunk.
C9_EmptyTextInvalidWhenInitialized ==
    [][(initialized_ /\ tick' # tick /\ lastOp' = "synthesize" /\ lastArg' = "")
          => /\ lastErr' = "INVALID_TEXT"
             /\ ~result'.success
             /\ result'.samples = 0
             /\ chunks' = 0]_vars

\* C9 witness: an initialized backend with a callback has refused the empty
\* text.
C9_Witness ==
    /\ initialized_
    /\ callback_
    /\ lastOp = "synthesize"
    /\ lastArg = ""
    /\ lastErr = "INVALID_TEXT"

\* C10: a synthesize call that stopped because the token sequence, the mel
\* or the waveform was empty has returned OK with success = true and an
\* empty audio buffer.
C10_EmptyPipelineIsSuccess ==
    (lastOp = "synthesize" /\ lastStage \in {"no_tokens", "no_mel", "no_waveform"})
        => /\ lastArg # ""
           /\ lastErr = "OK"
           /\ result.success
           /\ result.samples = 0

\* C10 witness: a Matcha backend returned success for an empty mel.
C10_Witness ==
    /\ IsMatcha
    /\ lastOp = "synthesize"
    /\ lastStage = "no_mel"
    /\ lastErr = "OK"
    /\ result.success

\* ========================================================================
\* Claims about TtsEngine::StreamingCall (under SpecEngine)
\* ========================================================================

Count(log, cb) == Cardinality({i \in 1..Len(log) : log[i] = cb})

\* The position of the (first) occurrence of cb in the log, 0 when absent.
IndexOf(log, cb) ==
    IF \E i \in 1..Len(log) : log[i] = cb
    THEN CHOOSE i \in 1..Len(log) : log[i] = cb /\ \A j \in 1..(i - 1) : log[j] # cb
    ELSE 0

\* C8: after a StreamingCall with a non-null callback whose synthesis failed,
\* OnError was invoked exactly once, after OnOpen and before OnClose, and
\* OnEvent and OnComplete were not invoked; after any StreamingCall with a
\* non-null callback the last callback invoked was OnClose.
C8_StreamingErrorOrder ==
    (engOp = "StreamingCall")
        => /\ Len(cbLog) > 0
           /\ cbLog[Len(cbLog)] = "OnClose"
           /\ Count(cbLog, "OnClose") = 1
           /\ ~callResult.success =>
                 /\ Count(cbLog, "OnError") = 1
                 /\ Count(cbLog, "OnOpen") = 1
                 /\ IndexOf(cbLog, "OnOpen") < IndexOf(cbLog, "OnError")
                 /\ IndexOf(cbLog, "OnError") < IndexOf(cbLog, "OnClose")
                 /\ Count(cbLog, "OnEvent") = 0
                 /\ Count(cbLog, "OnComplete") = 0
                 /\ errorArg = callResult.message

\* C8 witness: the backend raised an exception during a StreamingCall and
\* OnError received its report.
C8_Witness ==
    /\ engOp = "StreamingCall"
    /\ eng_initialized
    /\ ~callResult.success
    /\ errorArg \in {<<"Synthesis failed: ", what>> : what \in ExceptionMessages}
    /\ cbLog = <<"OnOpen", "OnError", "OnClose">>

\* ========================================================================
\* Claims about the inference mutex (under SpecConc)
\* ========================================================================

\* The threads that are executing a run of a neural session.
Running == {t \in Threads : pc[t] \in RunStates}

\* The run a thread waiting at a lock_guard is about to make.
RunAfter(where) ==
    CASE where = "acoustic_lock" -> "acoustic_run"
      [] where = "vocoder_lock" -> "vocoder_run"
      [] where = "infer_lock" -> "infer_run"

\* C2, first part: at most one thread is executing a session run, and it
\* owns the mutex.
C2_OneRunAtATime ==
    /\ Cardinality(Running) <= 1
    /\ \A t \in Running : inference_mutex_ = t

\* C2, second part: a thread that reaches a lock_guard while another thread
\* owns the mutex stays there without a result, and the only step a thread
\* takes from a lock_guard is into the session run, as the owner of the mutex
\* and without an error.
C2_ContentionBlocks ==
    \A t \in Threads :
        /\ (pc[t] \in LockStates /\ inference_mutex_ # 0)
              => (pc'[t] = pc[t] /\ tres'[t] = tres[t])
        /\ (pc[t] \in LockStates /\ pc'[t] # pc[t])
              => /\ pc'[t] = RunAfter(pc[t])
                 /\ inference_mutex_' = t
                 /\ tres'[t] = "-"

\* C2: per backend at most one thread at a time executes a session run; a
\* synthesize call that finds the inference mutex taken blocks until it is
\* released, then proceeds, and returns no error because of the contention.
C2_MutexSerializesRuns == []C2_OneRunAtATime /\ [][C2_ContentionBlocks]_vars

\* C2 witness: a thread waits at the lock_guard of runInference while another
\* thread runs the Kokoro session.
C2_Witness ==
    \E t, u \in Threads :
        /\ pc[t] = "infer_lock"
        /\ pc[u] = "infer_run"
        /\ inference_mutex_ = u

\* The threads inside the inference of a Matcha synthesize call: from the
\* start of its acoustic-model run to the end of its vocoder run.
InInference == {t \in Threads : pc[t] \in {"acoustic_run", "vocoder_lock", "vocoder_run"}}

\* C3 as stated: the inference of one Matcha synthesize call (acoustic run
\* followed by vocoder run) completes before the inference of another begins.
C3_WholeInferenceSerial == IsMatcha => Cardinality(InInference) <= 1

\* C3 amended: on a Matcha backend each single session run (the acoustic run
\* or the vocoder run of a call) begins only when no other thread is inside a
\* session run; between the two runs of one call the mutex is free and a run
\* of another call may take place.
C3_EachRunSerial ==
    [][IsMatcha =>
         \A t \in Threads :
            (pc[t] \notin RunStates /\ pc'[t] \in RunStates)
               => \A u \in Threads \ {t} : pc[u] \notin RunStates]_vars

\* C3 witness: a call has completed its acoustic run and waits for its
\* vocoder run while another call runs the acoustic model.
C3_Witness ==
    /\ IsMatcha
    /\ \E t, u \in Threads :
          /\ pc[t] = "vocoder_lock"
          /\ pc[u] = "acoustic_run"
          /\ inference_mutex_ = u

\* ========================================================================
\* Claims about the result of synthesize and about initialize (under Spec)
\* ========================================================================

\* The rate the backend produces when no output rate is configured.
NativeRateOfBackend == IF IsMatcha THEN NativeRate(type_) ELSE SAMPLE_RATE

\* C11: whenever synthesize returns OK, the sample rate of the audio chunk of
\* the result is config.output_sample_rate when that is non-zero and the
\* native rate of the backend otherwise, and it is the rate getSampleRate
\* reports.
C11_RateAsConfigured ==
    (lastOp = "synthesize" /\ lastErr = "OK")
        => /\ result.sample_rate = IF config_.output_sample_rate # 0
                                   THEN config_.output_sample_rate
                                   ELSE NativeRateOfBackend
           /\ result.sample_rate = getSampleRate

\* C14 as stated: a synthesize call inside which an exception was raised
\* returns SYNTHESIS_FAILED with the message of the exception in the detail
\* field of the error.
C14_ExceptionInDetail ==
    (lastOp = "synthesize" /\ thrown # "")
        => /\ lastErr = "SYNTHESIS_FAILED"
           /\ lastInfo.detail = thrown

\* C14 amended: a synthesize call inside which an exception was raised
\* returns (no exception escapes) SYNTHESIS_FAILED; the message field of the
\* error is the prefix of the backend followed by the message of the
\* exception, the detail field is empty, and the result holds no audio.
C14_ExceptionInMessage ==
    (lastOp = "synthesize" /\ thrown # "")
        => /\ lastErr = "SYNTHESIS_FAILED"
           /\ lastInfo.message = <<IF IsMatcha THEN "Synthesis failed: "
                                               ELSE "Kokoro synthesis failed: ", thrown>>
           /\ lastInfo.detail = ""
           /\ ~result.success
           /\ result.samples = 0
           /\ chunks = 0

\* C14 witness: the Kokoro session run threw and synthesize reported it.
C14_Witness ==
    /\ type_ = "KOKORO"
    /\ initialized_
    /\ lastOp = "synthesize"
    /\ thrown = "invalid input shape"
    /\ lastErr = "SYNTHESIS_FAILED"
    /\ lastInfo.message[2] = thrown

\* C15: an initialize call during which the loading of the token file or of
\* the lexicon failed has returned MODEL_NOT_FOUND or INTERNAL_ERROR and has
\* left the backend not initialized.
C15_LoadFailureAbortsInit ==
    (lastOp = "initialize" /\ lastArg \in {"tokens_throw"} \cup LexiconOutcomes)
        => /\ lastErr \in {"MODEL_NOT_FOUND", "INTERNAL_ERROR"}
           /\ ~initialized_

\* ========================================================================
\* Claims about TtsEngine::Call and CallToFile (under SpecEngine)
\* ========================================================================

\* C12: Call returns nullptr whenever the synthesis failed (the engine is not
\* initialized or the backend returned an error) and a non-null result only
\* when the synthesis succeeded.
C12_CallNullOnFailure == (engOp = "Call") => (callPtr <=> callResult.success)

\* The file at file_path is a 16-bit mono PCM WAV file holding the audio of
\* the result of the call.
IsWavOfResult ==
    /\ toFile.file.exists
    /\ toFile.file.audio_format = 1
    /\ toFile.file.channels = 1
    /\ toFile.file.bits_per_sample = 16
    /\ toFile.file.sample_rate = callResult.sample_rate
    /\ toFile.file.samples = callResult.samples

\* C13: CallToFile performs the synthesis of Call; when that synthesis
\* succeeded (and the file system did not fail) it has written the result to
\* file_path as a 16-bit mono PCM WAV file and returned true, and when the
\* synthesis failed it has returned false and written no file.
C13_CallToFileWritesOnSuccess ==
    (engOp = "CallToFile" /\ toFile.io \notin {"open_fail", "write_fail"})
        => IF callResult.success
           THEN toFile.ret /\ IsWavOfResult
           ELSE ~toFile.ret /\ ~toFile.file.exists

\* ========================================================================
\* Claims about the dynamic setters of the engine (under SpecSetters)
\* ========================================================================

C18_BlanksInterleaved ==
    (fn = "addBlankTokens" /\ fnDone)
        => /\ Len(fnRet) = 2 * Len(fnArg.tokens) + 1
           /\ \A k \in 0..(Len(fnRet) - 1) :
                 fnRet[k + 1] = IF k % 2 = 0 THEN fnArg.pad_id
                                             ELSE fnArg.tokens[((k - 1) \div 2) + 1]

\* C18 witness: three tokens that are not all equal were interleaved with
\* the pad id 3.
C18_Witness ==
    /\ fn = "addBlankTokens"
    /\ fnDone
    /\ fnArg.tokens = <<1, 2, 1>>
    /\ fnArg.pad_id = 3
    /\ fnRet = <<3, 1, 3, 2, 3, 1, 3>>

DigitValue(char) == (CHOOSE k \in 1..10 : digits[k] = char) - 1

\* The value of the characters shi, bai and qian.
UnitValue(char) ==
    CASE char = "shi" -> 10
      [] char = "bai" -> 100
      [] char = "qian" -> 1000

\* The number a reading denotes, read from left to right.  digit is the
\* digit read last and not yet used, section the value below 10^4 read since
\* the last wan or YI; wans, yis and wanyis count the units of 10^4, 10^8 and
\* 10^12.  A unit that follows no digit counts once (shi er is 12).
RECURSIVE Denotes(_, _)
Denotes(reading, acc) ==
    IF reading = <<>>
    THEN [neg |-> acc.neg,
          hi |-> acc.wanyis * 1000000 + acc.yis * 100 + (acc.wans \div 100),
          lo |-> (acc.wans % 100) * 10000 + acc.section + acc.digit]
    ELSE LET char == Head(reading)
             next ==
               CASE char = "fu" -> [acc EXCEPT !.neg = TRUE]
                 [] char \in {"shi", "bai", "qian"} ->
                      [acc EXCEPT !.section = acc.section
                                     + (IF acc.digit = 0 THEN 1 ELSE acc.digit)
                                         * UnitValue(char),
                                  !.digit = 0]
                 [] char = "wan" ->
                      [acc EXCEPT !.wans = acc.section + acc.digit,
                                  !.section = 0, !.digit = 0]
                 [] char = "YI" ->
                      [acc EXCEPT !.wanyis = acc.wans,
                                  !.yis = acc.section + acc.digit,
                                  !.wans = 0, !.section = 0, !.digit = 0]
                 [] OTHER -> [acc EXCEPT !.digit = DigitValue(char)]
         IN  Denotes(Tail(reading), next)

NumberOf(reading) ==
    Denotes(reading, [neg |-> FALSE, digit |-> 0, section |-> 0, wans |-> 0,
                      yis |-> 0, wanyis |-> 0])

\* C20: intToChineseReading gives distinct readings to distinct integers of
\* [-10^12, 10^12]: the integer is recovered from its reading, so that no
\* two integers share one; 0 is read ling, 101 is read yi bai ling yi, and
\* 12 is read shi er, not yi shi er.
C20_ReadingsDistinct ==
    (fn = "intToChineseReading" /\ fnDone)
        => /\ NumberOf(fnRet) = fnArg
           /\ fnArg = Int64(0) => fnRet = <<"ling">>
           /\ fnArg = Int64(101) => fnRet = <<"yi", "bai", "ling", "yi">>
           /\ fnArg = Int64(12) => fnRet = <<"shi", "er">>

\* C20 witness: 10^12 + 0 was read yi wan YI and -(10^8 + 10^4) was read
\* fu yi YI ling yi wan.
C20_Witness ==
    /\ fn = "intToChineseReading"
    /\ fnDone
    /\ fnArg = [neg |-> TRUE, hi |-> 100, lo |-> 10000]
    /\ fnRet = <<"fu", "yi", "YI", "ling", "yi", "wan">>

\* ========================================================================
\* Claims about the inference of MatchaBackend::synthesize (under Spec)
\* ========================================================================

\* Two quotients <<numerator, denominator>> denote the same number.
SameQuotient(p, q) == p[1] * q[2] = q[1] * p[2]

\* C24: every acoustic-model run a Matcha synthesize makes is given
\* length_scale = (1 / speech_rate) * configured length_scale, speech_rate
\* being the speed in effect (current_speed_) and the configured length_scale
\* being that of TTSConfig (1.0): the speed is applied once.
C24_SpeedAppliedOnce ==
    (IsMatcha /\ lastOp = "synthesize" /\ inference.stages # <<>>)
        => SameQuotient(inference.length_scale,
                        <<10 * DefaultLengthScale, current_speed_ * 10>>)

\* C25: in a Matcha synthesize the audio stages run in the order vocoder,
\* ISTFT, resampling (when output_sample_rate is non-zero and differs from
\* the native rate), post-processing: post-processing comes after the
\* resampling.
C25_PostProcessAfterResample ==
    (IsMatcha /\ lastOp = "synthesize" /\ lastStage = "full")
        => /\ IndexOf(inference.stages, "vocoder") > 0
           /\ IndexOf(inference.stages, "vocoder") < IndexOf(inference.stages, "istft")
           /\ IndexOf(inference.stages, "istft") < IndexOf(inference.stages, "postprocess")
           /\ (IndexOf(inference.stages, "resample") > 0) <=> MatchaNeedsResample
           /\ MatchaNeedsResample
                 => /\ IndexOf(inference.stages, "istft") < IndexOf(inference.stages, "resample")
                    /\ IndexOf(inference.stages, "resample")
                          < IndexOf(inference.stages, "postprocess")

\* ========================================================================
\* Claims about the configuration the engine reports (under SpecSetters and
\* SpecEngine)
\* ========================================================================

\* C22: after any sequence of TtsEngine::SetSpeed and SetSpeaker calls, with
\* valid or invalid arguments, the speech_rate and the speaker_id GetConfig
\* reports on an initialized engine are the speed and the speaker its backend
\* uses for the next synthesis (a Kokoro backend has no speaker).
C22_ConfigMatchesBackend ==
    eng_initialized
        => /\ eng_config.speech_rate = current_speed_
           /\ IsMatcha => eng_config.speaker_id = current_speaker_

\* GetBackendType: return impl_->config.backend.
GetBackendType == eng_config.backend

\* C23: whenever the engine reports IsInitialized() = true, GetBackendType
\* is the kind of the backend that performs the synthesis; an engine made
\* with a kind the factory does not support is not initialized, and every
\* Call on it fails.
C23_ReportedKindIsBackendKind ==
    /\ eng_initialized => GetBackendType = type_
    /\ (eng_constructed /\ ~isAvailable(GetBackendType))
          => /\ ~eng_initialized
             /\ engOp = "Call" => ~callResult.success

\* ========================================================================
\* Claims about shutdown (under SpecShutdown)
\* ========================================================================

\* C21: shutdown never destroys a session or the environment while a
\* synthesize call on the backend is executing a session run: every thread
\* inside a run has its session and the environment, so that a concurrent
\* shutdown acts before the initialization check of the call or after its
\* inference.
C21_NoRunOnDestroyedSession ==
    \A t \in Threads : pc[t] \in RunStates => (SessionOf(pc[t]) /\ env_)

\* A neural session exists.
SessionExists == acoustic_model_ \/ vocoder_model_ \/ session_

\* C26, the states: no session exists without the environment, the
\* environment is reset only once the sessions are, and the token map of a
\* Matcha backend is cleared only once the environment is reset.
C26_EnvOutlivesSessions ==
    /\ SessionExists => env_
    /\ sd \in {"acoustic", "vocoder", "session"} => env_
    /\ (IsMatcha /\ sd \in {"acoustic", "vocoder", "env"}) => token_to_id_ # {}
    /\ sd \in {"tokens", "flag"} => (~SessionExists /\ ~env_)
    /\ (IsMatcha /\ sd = "flag") => token_to_id_ = {}

\* C26, the steps: shutdown destroys the environment when no session is
\* left, and clears the token map when the environment is destroyed.
C26_StepsInOrder ==
    /\ (env_ /\ ~env_') => ~SessionExists
    /\ (token_to_id_ # {} /\ token_to_id_' = {}) => (~SessionExists /\ ~env_)
    /\ (SessionExists /\ ~SessionExists') => env_

\* C26: on shutdown of an initialized backend the sessions are destroyed
\* first, then the environment, then the token map is cleared; at no point
\* does a session exist after its environment has been destroyed.
C26_ShutdownOrder == []C26_EnvOutlivesSessions /\ [][C26_StepsInOrder]_vars

\* C26 witness: shutdown of a Matcha backend has destroyed both sessions and
\* the environment and is about to clear the token map.
C26_Witness ==
    /\ IsMatcha
    /\ sd = "tokens"
    /\ ~acoustic_model_
    /\ ~vocoder_model_
    /\ ~env_
    /\ token_to_id_ # {}

\* ========================================================================
\* Claims about the ISTFT, the style vector and the scoped resources (under
\* SpecFn)
\* ========================================================================

\* C27: for all STFT parameters that reach istft, every read of the Hann
\* window uses an index smaller than win_length (also when win_length <
\* n_fft), and every access to the output and window-energy buffers uses an
\* index smaller than n_fft + (T - 1) * hop.
C27_IstftIndicesInRange ==
    (fn = "istft" /\ fnDone)
        => /\ \A i \in fnRet.window_reads : 0 <= i /\ i < fnArg.win_length
           /\ \A j \in fnRet.buffer_accesses :
                 0 <= j /\ j < fnArg.n_fft + (fnArg.num_frames - 1) * fnArg.hop_length

\* The number of resources of one kind that are open after the first k
\* events.
Open(events, resource, k) ==
    Cardinality({i \in 1..k : events[i] = <<"open", resource>>})
        - Cardinality({i \in 1..k : events[i] = <<"close", resource>>})

\* Every resource is opened only when it is not open, closed only when it
\* is open, and closed at the end.
Released(events) ==
    \A resource \in {"pipe", "file", "in", "out", "plan"} :
        /\ \A k \in 0..Len(events) : Open(events, resource, k) \in {0, 1}
        /\ Open(events, resource, Len(events)) = 0

\* C28: every pipe opened to the external phonemizer and every file handle
\* opened for a WAV write is closed on every exit path, error paths
\* included, and the FFT buffers and the plan of one ISTFT frame are
\* released before those of the next frame are allocated.
C28_ResourcesReleased ==
    (fnDone /\ fn \in {"checkEspeakNgAvailable", "processEnglishTextToPhonemes",
                        "saveToFile", "istft"})
        => Released(fnRet.events)

\* C28 witness: the reading of the phonemizer's output threw while the pipe
\* was open, and the pipe was closed.
C28_Witness ==
    /\ fn = "processEnglishTextToPhonemes"
    /\ fnDone
    /\ fnArg.outcome = "read_throw"
    /\ fnRet.thrown
    /\ fnRet.events = <<<<"open", "pipe">>, <<"close", "pipe">>>>

\* C29: for every token length (0, negative and larger than the matrix
\* included) and every loaded voice matrix of N >= 1 rows, the style vector
\* is row min(token_len, N - 1) clamped to >= 0: the row lies in [0, N - 1],
\* the vector has exactly STYLE_DIM entries and lies inside the matrix.
C29_StyleRowClamped ==
    (fn = "getStyleVector" /\ fnDone /\ fnArg.num_rows >= 1)
        => /\ fnRet.row = IF fnArg.token_len <= 0 THEN 0
                           ELSE IF fnArg.token_len >= fnArg.num_rows - 1
                                THEN fnArg.num_rows - 1
                                ELSE fnArg.token_len
           /\ 0 <= fnRet.row
           /\ fnRet.row <= fnArg.num_rows - 1
           /\ fnRet.size = STYLE_DIM
           /\ fnRet.first = fnRet.row * STYLE_DIM
           /\ fnRet.last <= fnArg.num_rows * STYLE_DIM

\* C29 witness: a negative token length on a matrix of three rows gave row
\* 0.
C29_Witness ==
    /\ fn = "getStyleVector"
    /\ fnDone
    /\ fnArg.token_len = -1
    /\ fnArg.num_rows = 3
    /\ fnRet.row = 0
    /\ fnRet.size = STYLE_DIM

\* ========================================================================
\* Claims about Roman numerals in bilingual text (under SpecFn)
\* ========================================================================

\* The Roman numeral of n in the standard (subtractive) notation.
RomanTable == <<<<1000, <<"M">>>>, <<900, <<"C", "M">>>>, <<500, <<"D">>>>,
               <<400, <<"C", "D">>>>, <<100, <<"C">>>>, <<90, <<"X", "C">>>>,
               <<50, <<"L">>>>, <<40, <<"X", "L">>>>, <<10, <<"X">>>>,
               <<9, <<"I", "X">>>>, <<5, <<"V">>>>, <<4, <<"I", "V">>>>,
               <<1, <<"I">>>>>>

RECURSIVE ToRoman(_, _)
ToRoman(n, k) ==
    IF n <= 0 \/ k > Len(RomanTable) THEN <<>>
    ELSE IF n >= RomanTable[k][1]
         THEN RomanTable[k][2] \o ToRoman(n - RomanTable[k][1], k)
         ELSE ToRoman(n, k + 1)

\* A word is a well-formed Roman numeral when it is, in either case, the
\* numeral of a number from 1 to 3999.
WellFormedRoman(word) ==
    /\ romanToInt(word) \in 1..3999
    /\ ToRoman(romanToInt(word), 1) = [k \in 1..Len(word) |-> toupper(word[k])]

\* C30: a word of an English run is given to the Roman-numeral reading only
\* if it is a well-formed Roman numeral; an ordinary English word written
\* with the letters i, v, x, l, c, d, m only is phonemized as English.
C30_OnlyNumeralsReadAsRoman ==
    (fn = "processZhEnText" /\ fnDone)
        => \A k \in 1..Len(fnRet) :
              fnRet[k].how = "processRomanNumeralToIds"
                 => WellFormedRoman(fnRet[k].words[1])

====
